---- MODULE Spec2Model ----
(***************************************************************************)
(* Model of the colour-palette engine of Kiro-Micro-Tools: colour          *)
(* conversions, harmony generators, lock-aware regeneration, the URL state *)
(* codec and the usePalette hook with its URL synchronisation.             *)
(*                                                                         *)
(* Text is modelled as a sequence of one-character strings, so that        *)
(* formatting and parsing are real computations.  Fractions are kept as    *)
(* exact integer quotients; Math.round(x) is floor(x + 1/2).  The source   *)
(* evaluates the same expressions in IEEE-754 doubles, which can land one  *)
(* unit lower than the exact value when x is exactly k + 1/2.              *)
(***************************************************************************)
EXTENDS Integers, Sequences, FiniteSets, TLC

VARIABLES palette, pending, hash, swatchHsl, edited, committed, steps, fn, arg, res,
          app

hookVars == <<palette, pending, hash, swatchHsl, edited, committed, steps, app>>
pureVars == <<fn, arg, res>>
vars == <<palette, pending, hash, swatchHsl, edited, committed, steps, fn, arg, res, app>>

(***************************************************************************)
(* Bounds of the model.                                                    *)
(***************************************************************************)
MaxSteps == 2
MaxPending == 2

PaletteSize == 5

\* A palette is [colors |-> sequence of colours, harmonyRule |-> rule name];
\* an absent harmonyRule is Undefined.  NoPalette stands for the argument that
\* was not passed, NullPalette for the null that decoding returns.
Undefined == "undefined"
NoPalette == [colors |-> <<>>, harmonyRule |-> "not passed"]
NullPalette == [colors |-> <<>>, harmonyRule |-> "null"]

\* The App component is not mounted: the specifications of the hook and of
\* the functions leave its state at this value.
NoApp == [mounted |-> FALSE]

\* The element of a one-element set.  Only({ e : x \in {v} }) is e for x the
\* value of v, with v evaluated once, as the initialiser of a const is.
Only(S) == CHOOSE x \in S : TRUE

(***************************************************************************)
(* Numeric helpers                                                         *)
(***************************************************************************)
Min2(a, b) == IF a < b THEN a ELSE b
Max2(a, b) == IF a > b THEN a ELSE b

\* clamp(value, min, max)
clamp(value, min, max) == Min2(Max2(value, min), max)

\* Math.round of the fraction num/den (den > 0): floor(num/den + 1/2)
MathRound(num, den) == (2 * num + den) \div (2 * den)

\* The % of the source language: the remainder has the sign of the dividend.
JsRem(a, b) == IF a >= 0 THEN a % b ELSE -((-a) % b)

(***************************************************************************)
(* Characters                                                              *)
(***************************************************************************)
HexDigits == <<"0","1","2","3","4","5","6","7","8","9","A","B","C","D","E","F">>
LowerHexDigits == <<"0","1","2","3","4","5","6","7","8","9","a","b","c","d","e","f">>

IsUpperHexDigit(c) == \E i \in 1..16 : HexDigits[i] = c
IsHexDigit(c) == \E i \in 1..16 : HexDigits[i] = c \/ LowerHexDigits[i] = c

\* String.prototype.toUpperCase on one character (the letters the model uses)
UpperChar(c) == IF \E i \in 11..16 : LowerHexDigits[i] = c THEN HexDigits[CHOOSE i \in 11..16 : LowerHexDigits[i] = c] ELSE c
toUpperCase(s) == [i \in 1..Len(s) |-> UpperChar(s[i])]

\* the value of one hexadecimal digit, as parseInt(_, 16) reads it
HexVal(c) == (CHOOSE i \in 1..16 : HexDigits[i] = c \/ LowerHexDigits[i] = c) - 1

\* Variant: n.toString(16).padStart(2, '0'), without toUpperCase().
toHexLowerCase(n) == <<LowerHexDigits[(n \div 16) + 1], LowerHexDigits[(n % 16) + 1]>>

\* n.toString(16).padStart(2, '0').toUpperCase() for 0 <= n <= 255
toHex(n) == <<HexDigits[(n \div 16) + 1], HexDigits[(n % 16) + 1]>>

(***************************************************************************)
(* Colour conversions (colorConversions.ts)                                *)
(***************************************************************************)
\* hex.replace(/^#/, '')
StripHash(s) == IF Len(s) > 0 /\ s[1] = "#" THEN Tail(s) ELSE s

\* hexToRgb on a text of 6 hexadecimal digits with or without a leading '#'
hexToRgb(hex) ==
  Only({
    LET byte(k) == 16 * HexVal(cleanHex[k]) + HexVal(cleanHex[k + 1])
    IN  [r |-> clamp(byte(1), 0, 255), g |-> clamp(byte(3), 0, 255), b |-> clamp(byte(5), 0, 255)]
    : cleanHex \in {StripHash(hex)} })

\* Variant: the three groups without the leading '#'.
rgbToHexNoHash(rgb) ==
  Only({
    toHex(clamp(c.r, 0, 255)) \o toHex(clamp(c.g, 0, 255)) \o toHex(clamp(c.b, 0, 255))
    : c \in {rgb} })

\* rgbToHex: '#' and three two-digit upper-case groups
rgbToHex(rgb) ==
  Only({
    LET r == clamp(c.r, 0, 255)
        g == clamp(c.g, 0, 255)
        b == clamp(c.b, 0, 255)
    IN  <<"#">> \o toHex(r) \o toHex(g) \o toHex(b)
    : c \in {rgb} })

\* Variant: the hue is not wrapped when g < b and is not clamped.
rgbToHslNoWrap(rgb) ==
  Only({
    LET max == Max2(c.r, Max2(c.g, c.b))
        min == Min2(c.r, Min2(c.g, c.b))
        delta == max - min
        lNum == max + min
        sDen == IF lNum > 255 THEN 510 - max - min ELSE max + min
        hNum == IF max = c.r THEN 60 * (c.g - c.b)
                ELSE IF max = c.g THEN 60 * ((c.b - c.r) + 2 * delta)
                ELSE 60 * ((c.r - c.g) + 4 * delta)
    IN  [h |-> IF delta = 0 THEN 0 ELSE MathRound(hNum, delta),
         s |-> IF delta = 0 THEN 0 ELSE clamp(MathRound(delta * 100, sDen), 0, 100),
         l |-> clamp(MathRound(lNum * 100, 510), 0, 100)]
    : c \in {rgb} })

\* rgbToHsl: channels are n/255; every quotient is kept exact
rgbToHsl(rgb) ==
  Only({
    LET r == clamp(c.r, 0, 255)
        g == clamp(c.g, 0, 255)
        b == clamp(c.b, 0, 255)
        max == Max2(r, Max2(g, b))
        min == Min2(r, Min2(g, b))
        delta == max - min
        \* l = (max + min) / 2 in units of 1/255
        lNum == max + min
        \* s = delta / (2 - max - min) when l > 0.5, else delta / (max + min)
        sDen == IF lNum > 255 THEN 510 - max - min ELSE max + min
        \* h * 360 = 60 * (x / delta + k): numerator over delta
        hNum == IF max = r THEN 60 * ((g - b) + (IF g < b THEN 6 * delta ELSE 0))
                ELSE IF max = g THEN 60 * ((b - r) + 2 * delta)
                ELSE 60 * ((r - g) + 4 * delta)
    IN  [h |-> IF delta = 0 THEN 0 ELSE clamp(MathRound(hNum, delta), 0, 360),
         s |-> IF delta = 0 THEN 0 ELSE clamp(MathRound(delta * 100, sDen), 0, 100),
         l |-> clamp(MathRound(lNum * 100, 510), 0, 100)]
    : c \in {rgb} })

\* hue2rgb(p, q, t): p, q in units of 1/10000, t in units of 1/1080;
\* the result is in units of 1/1800000
hue2rgb(p, q, t0) ==
  LET t1 == IF t0 < 0 THEN t0 + 1080 ELSE t0
      t == IF t1 > 1080 THEN t1 - 1080 ELSE t1
  IN  IF t < 180 THEN p * 180 + (q - p) * t
      ELSE IF t < 540 THEN q * 180
      ELSE IF t < 720 THEN p * 180 + (q - p) * (720 - t)
      ELSE p * 180

\* hslToRgb
hslToRgb(hsl) ==
  Only({
    LET h == clamp(c.h, 0, 360)
        s == clamp(c.s, 0, 100)
        l == clamp(c.l, 0, 100)
        q == IF l < 50 THEN l * (100 + s) ELSE 100 * l + 100 * s - l * s
        p == 200 * l - q
        chan(t) == clamp(MathRound(hue2rgb(p, q, t) * 255, 1800000), 0, 255)
        grey == clamp(MathRound(l * 255, 100), 0, 255)
    IN  IF s = 0 THEN [r |-> grey, g |-> grey, b |-> grey]
        ELSE [r |-> chan(3 * h + 360), g |-> chan(3 * h), b |-> chan(3 * h - 360)]
    : c \in {hsl} })

hexToHsl(hex) == rgbToHsl(hexToRgb(hex))

hslToHex(hsl) == rgbToHex(hslToRgb(hsl))

(***************************************************************************)
(* Harmony generators (harmonyRules.ts)                                    *)
(***************************************************************************)
HarmonyRules == <<"analogous", "complementary", "triadic", "tetradic", "monochromatic">>
RuleNames == {HarmonyRules[i] : i \in 1..Len(HarmonyRules)}

normalizeHue(hue) == JsRem(JsRem(hue, 360) + 360, 360)

Hsl(h, s, l) == [h |-> h, s |-> s, l |-> l]

\* Variant: the new colour is created locked.
createColorFromHslLocked(hsl) ==
  Only({
    Only({
      [hex |-> hex, rgb |-> hexToRgb(hex), hsl |-> value, locked |-> TRUE]
      : hex \in {hslToHex(value)} })
    : value \in {hsl} })

createColorFromHsl(hsl) ==
  Only({
    Only({
      [hex |-> hex, rgb |-> hexToRgb(hex), hsl |-> value, locked |-> FALSE]
      : hex \in {hslToHex(value)} })
    : value \in {hsl} })

generateAnalogousPalette(baseColor) ==
  Only({
    [i \in 1..5 |-> createColorFromHsl(Hsl(normalizeHue(baseHsl.h + <<-30, -15, 0, 15, 30>>[i]), baseHsl.s, baseHsl.l))]
    : baseHsl \in {baseColor.hsl} })

generateComplementaryPalette(baseColor) ==
  Only({
    LET complementaryHue == normalizeHue(baseHsl.h + 180)
    IN  << createColorFromHsl(Hsl(baseHsl.h, baseHsl.s, Max2(20, baseHsl.l - 20))),
           createColorFromHsl(Hsl(baseHsl.h, baseHsl.s, baseHsl.l)),
           createColorFromHsl(Hsl(baseHsl.h, baseHsl.s, Min2(80, baseHsl.l + 20))),
           createColorFromHsl(Hsl(complementaryHue, baseHsl.s, baseHsl.l)),
           createColorFromHsl(Hsl(complementaryHue, baseHsl.s, Min2(80, baseHsl.l + 15))) >>
    : baseHsl \in {baseColor.hsl} })

\* Variant: the last colour takes the third hue instead of the second.
generateTriadicPaletteThirdHue(baseColor) ==
  Only({
    LET hue2 == normalizeHue(baseHsl.h + 120)
        hue3 == normalizeHue(baseHsl.h + 240)
    IN  << createColorFromHsl(Hsl(baseHsl.h, baseHsl.s, baseHsl.l)),
           createColorFromHsl(Hsl(baseHsl.h, baseHsl.s, Min2(80, baseHsl.l + 15))),
           createColorFromHsl(Hsl(hue2, baseHsl.s, baseHsl.l)),
           createColorFromHsl(Hsl(hue3, baseHsl.s, baseHsl.l)),
           createColorFromHsl(Hsl(hue3, baseHsl.s, Max2(20, baseHsl.l - 15))) >>
    : baseHsl \in {baseColor.hsl} })

generateTriadicPalette(baseColor) ==
  Only({
    LET hue2 == normalizeHue(baseHsl.h + 120)
        hue3 == normalizeHue(baseHsl.h + 240)
    IN  << createColorFromHsl(Hsl(baseHsl.h, baseHsl.s, baseHsl.l)),
           createColorFromHsl(Hsl(baseHsl.h, baseHsl.s, Min2(80, baseHsl.l + 15))),
           createColorFromHsl(Hsl(hue2, baseHsl.s, baseHsl.l)),
           createColorFromHsl(Hsl(hue3, baseHsl.s, baseHsl.l)),
           createColorFromHsl(Hsl(hue2, baseHsl.s, Max2(20, baseHsl.l - 15))) >>
    : baseHsl \in {baseColor.hsl} })

generateTetradicPalette(baseColor) ==
  Only({
    LET hue2 == normalizeHue(baseHsl.h + 90)
        hue3 == normalizeHue(baseHsl.h + 180)
        hue4 == normalizeHue(baseHsl.h + 270)
    IN  << createColorFromHsl(Hsl(baseHsl.h, baseHsl.s, baseHsl.l)),
           createColorFromHsl(Hsl(hue2, baseHsl.s, baseHsl.l)),
           createColorFromHsl(Hsl(hue3, baseHsl.s, baseHsl.l)),
           createColorFromHsl(Hsl(hue4, baseHsl.s, baseHsl.l)),
           createColorFromHsl(Hsl(baseHsl.h, baseHsl.s, Min2(80, baseHsl.l + 15))) >>
    : baseHsl \in {baseColor.hsl} })

generateMonochromaticPalette(baseColor) ==
  Only({
    << createColorFromHsl(Hsl(baseHsl.h, Max2(10, baseHsl.s - 20), Max2(20, baseHsl.l - 20))),
       createColorFromHsl(Hsl(baseHsl.h, baseHsl.s, Max2(30, baseHsl.l - 10))),
       createColorFromHsl(Hsl(baseHsl.h, baseHsl.s, baseHsl.l)),
       createColorFromHsl(Hsl(baseHsl.h, baseHsl.s, Min2(70, baseHsl.l + 10))),
       createColorFromHsl(Hsl(baseHsl.h, Min2(90, baseHsl.s + 20), Min2(80, baseHsl.l + 20))) >>
    : baseHsl \in {baseColor.hsl} })

(***************************************************************************)
(* Palette regeneration (paletteGenerator.ts)                              *)
(***************************************************************************)
\* generateRandomColor, given the three bytes the random source produced
generateRandomColor(bytes) ==
  Only({
    Only({
      [hex |-> hex, rgb |-> rgb, hsl |-> rgbToHsl(rgb), locked |-> FALSE]
      : rgb \in {hexToRgb(hex)} })
    : hex \in {toUpperCase(<<"#">> \o toHex(bytes[1]) \o toHex(bytes[2]) \o toHex(bytes[3]))} })

generatePaletteByRule(baseColor, rule) ==
  CASE rule = "analogous" -> generateAnalogousPalette(baseColor)
    [] rule = "complementary" -> generateComplementaryPalette(baseColor)
    [] rule = "triadic" -> generateTriadicPalette(baseColor)
    [] rule = "tetradic" -> generateTetradicPalette(baseColor)
    [] rule = "monochromatic" -> generateMonochromaticPalette(baseColor)

\* selectRandomHarmonyRule, given k = Math.floor(Math.random() * rules.length)
selectRandomHarmonyRule(k) == HarmonyRules[k + 1]

\* currentPalette.colors.filter(color => color.locked)
RECURSIVE FilterLocked(_)
FilterLocked(colors) ==
  IF colors = <<>> THEN <<>>
  ELSE (IF Head(colors).locked THEN <<Head(colors)>> ELSE <<>>) \o FilterLocked(Tail(colors))

\* Variant: no generated colour is taken to match a locked colour.
isAlreadyLockedNever(lockedColors, genColor) == FALSE

\* lockedColors.some(locked => locked.hex === genColor.hex)
isAlreadyLocked(lockedColors, genColor) ==
  \E j \in 1..Len(lockedColors) : lockedColors[j].hex = genColor.hex

\* The inner while loop: the position (0-based) of the first generated colour at
\* or after generatedIndex that no locked colour matches, or the length of
\* generatedColors when there is none.
RECURSIVE SkipLocked(_, _, _)
SkipLocked(generatedColors, lockedColors, generatedIndex) ==
  IF generatedIndex >= Len(generatedColors) THEN Len(generatedColors)
  ELSE IF ~isAlreadyLocked(lockedColors, generatedColors[generatedIndex + 1]) THEN generatedIndex
  ELSE SkipLocked(generatedColors, lockedColors, generatedIndex + 1)

\* The for loop over i = 0..4 that merges locked and generated colours; rnd is
\* the sequence of byte triples the random source yields, used counts the
\* generateRandomColor calls made so far.
RECURSIVE MergeLoop(_, _, _, _, _, _, _, _)
MergeLoop(i, finalColors, generatedIndex, used, currentColors, lockedColors, generatedColors, rnd) ==
  IF i >= PaletteSize THEN [colors |-> finalColors, used |-> used]
  ELSE IF i < Len(currentColors) /\ currentColors[i + 1].locked
    THEN MergeLoop(i + 1, Append(finalColors, currentColors[i + 1]), generatedIndex, used,
                   currentColors, lockedColors, generatedColors, rnd)
  ELSE Only({
         IF k < Len(generatedColors)
         THEN MergeLoop(i + 1, Append(finalColors, [generatedColors[k + 1] EXCEPT !.locked = FALSE]),
                        k + 1, used, currentColors, lockedColors, generatedColors, rnd)
         ELSE MergeLoop(i + 1, Append(finalColors, generateRandomColor(rnd[used + 1])),
                        k, used + 1, currentColors, lockedColors, generatedColors, rnd)
         : k \in {SkipLocked(generatedColors, lockedColors, generatedIndex)} })

\* while (finalColors.length < 5) finalColors.push(generateRandomColor())
RECURSIVE PadRandom(_, _, _)
PadRandom(finalColors, used, rnd) ==
  Only({
    IF Len(colors) >= PaletteSize THEN [colors |-> colors, used |-> used]
    ELSE PadRandom(Append(colors, generateRandomColor(rnd[used + 1])), used + 1, rnd)
    : colors \in {finalColors} })

\* generateRandomPalette with the outcomes of the random source made explicit:
\* k selects the rule, rnd lists the byte triples of the random colours.  The
\* result carries the number of random colours used beside the palette.
generateRandomPaletteRun(currentPalette, k, rnd) ==
  Only({
    Only({
      IF currentPalette = NoPalette \/ Len(currentPalette.colors) = 0 \/ Len(lockedColors) = 0
      THEN [palette |-> [colors |-> generatePaletteByRule(generateRandomColor(rnd[1]), harmonyRule),
                         harmonyRule |-> harmonyRule],
            used |-> 1]
      ELSE IF Len(lockedColors) >= 5
      THEN [palette |-> [currentPalette EXCEPT !.harmonyRule = harmonyRule], used |-> 0]
      ELSE Only({
             Only({
               Only({
                 [palette |-> [colors |-> SubSeq(padded.colors, 1, Min2(5, Len(padded.colors))),
                               harmonyRule |-> harmonyRule],
                  used |-> padded.used]
                 : padded \in {PadRandom(merged.colors, merged.used, rnd)} })
               : merged \in {MergeLoop(0, <<>>, 0, 0, currentPalette.colors, lockedColors, generatedColors, rnd)} })
             : generatedColors \in {generatePaletteByRule(lockedColors[1], harmonyRule)} })
      : lockedColors \in {FilterLocked(currentPalette.colors)} })
    : harmonyRule \in {selectRandomHarmonyRule(k)} })

\* Variant: the generated colours are returned as they are, the locked colours
\* of the input are not merged in.
generateRandomPaletteNoMerge(currentPalette, k, rnd) ==
  Only({
    IF currentPalette = NoPalette \/ Len(lockedColors) = 0
    THEN generateRandomPaletteRun(currentPalette, k, rnd).palette
    ELSE [colors |-> generatePaletteByRule(lockedColors[1], selectRandomHarmonyRule(k)),
          harmonyRule |-> selectRandomHarmonyRule(k)]
    : lockedColors \in {FilterLocked(currentPalette.colors)} })

\* Variant: the all-locked test compares with the length of the input instead
\* of 5.
generateRandomPaletteAllLocked(currentPalette, k, rnd) ==
  Only({
    IF currentPalette # NoPalette /\ Len(lockedColors) > 0 /\ Len(lockedColors) = Len(currentPalette.colors)
    THEN [currentPalette EXCEPT !.harmonyRule = selectRandomHarmonyRule(k)]
    ELSE generateRandomPaletteRun(currentPalette, k, rnd).palette
    : lockedColors \in {FilterLocked(currentPalette.colors)} })

generateRandomPalette(currentPalette, k, rnd) == generateRandomPaletteRun(currentPalette, k, rnd).palette

(***************************************************************************)
(* Text helpers and URLSearchParams                                        *)
(***************************************************************************)
ColorsKey == <<"c","o","l","o","r","s">>
LocksKey == <<"l","o","c","k","s">>
HarmonyKey == <<"h","a","r","m","o","n","y">>

\* the characters of each rule name
RuleText(rule) ==
  CASE rule = "analogous" -> <<"a","n","a","l","o","g","o","u","s">>
    [] rule = "complementary" -> <<"c","o","m","p","l","e","m","e","n","t","a","r","y">>
    [] rule = "triadic" -> <<"t","r","i","a","d","i","c">>
    [] rule = "tetradic" -> <<"t","e","t","r","a","d","i","c">>
    [] rule = "monochromatic" -> <<"m","o","n","o","c","h","r","o","m","a","t","i","c">>

\* position of the first occurrence of character c in s, 0 when there is none
RECURSIVE IndexOf(_, _, _)
IndexOf(s, c, from) ==
  IF from > Len(s) THEN 0 ELSE IF s[from] = c THEN from ELSE IndexOf(s, c, from + 1)

\* s.split(c): the pieces between the occurrences of c ('' splits to [''])
RECURSIVE Split(_, _)
Split(s, c) ==
  LET k == IndexOf(s, c, 1)
  IN  IF k = 0 THEN <<s>> ELSE <<SubSeq(s, 1, k - 1)>> \o Split(SubSeq(s, k + 1, Len(s)), c)

\* parts.join(c)
RECURSIVE Join(_, _)
Join(parts, c) ==
  IF parts = <<>> THEN <<>>
  ELSE IF Len(parts) = 1 THEN parts[1]
  ELSE parts[1] \o <<c>> \o Join(Tail(parts), c)

\* hex.replace('#', ''): the first '#' is removed, wherever it is
RemoveFirstHash(s) ==
  LET k == IndexOf(s, "#", 1)
  IN  IF k = 0 THEN s ELSE SubSeq(s, 1, k - 1) \o SubSeq(s, k + 1, Len(s))

\* The characters outside the unreserved set that the model's texts use, each
\* with the two hexadecimal digits of its code.
PercentCodes == { <<",", "2", "C">>, <<"#", "2", "3">>, <<"&", "2", "6">>, <<"=", "3", "D">>,
                  <<"%", "2", "5">>, <<"?", "3", "F">>, <<"+", "2", "B">>, <<" ", "2", "0">> }

\* Variant: no character is percent-encoded.
UrlEncodeCharLiteral(c) == <<c>>

\* the application/x-www-form-urlencoded serialisation of one character
UrlEncodeChar(c) ==
  IF c = " " THEN <<"+">>
  ELSE IF \E e \in PercentCodes : e[1] = c
       THEN LET e == CHOOSE e \in PercentCodes : e[1] = c IN <<"%", e[2], e[3]>>
       ELSE <<c>>

RECURSIVE UrlEncode(_)
UrlEncode(s) == IF s = <<>> THEN <<>> ELSE UrlEncodeChar(Head(s)) \o UrlEncode(Tail(s))

\* the character with the code written by the two hexadecimal digits hi, lo
ByteChar(hi, lo) ==
  LET h == UpperChar(hi)
      l == UpperChar(lo)
  IN  IF \E e \in PercentCodes : e[2] = h /\ e[3] = l
      THEN (CHOOSE e \in PercentCodes : e[2] = h /\ e[3] = l)[1]
      ELSE IF h = "3" /\ HexVal(l) <= 9 THEN l
      ELSE IF h = "4" /\ HexVal(l) \in 1..6 THEN HexDigits[HexVal(l) + 10]
      ELSE IF h = "6" /\ HexVal(l) \in 1..6 THEN LowerHexDigits[HexVal(l) + 10]
      ELSE "\\uFFFD"

\* percent-decoding: %XY with two hexadecimal digits is one character, any
\* other '%' stands for itself
RECURSIVE PercentDecode(_)
PercentDecode(s) ==
  IF s = <<>> THEN <<>>
  ELSE IF s[1] = "%" /\ Len(s) >= 3 /\ IsHexDigit(s[2]) /\ IsHexDigit(s[3])
       THEN <<ByteChar(s[2], s[3])>> \o PercentDecode(SubSeq(s, 4, Len(s)))
       ELSE <<s[1]>> \o PercentDecode(Tail(s))

PlusToSpace(s) == [i \in 1..Len(s) |-> IF s[i] = "+" THEN " " ELSE s[i]]

\* one name=value piece of a query text
ParsePair(piece) ==
  LET k == IndexOf(piece, "=", 1)
      name == IF k = 0 THEN piece ELSE SubSeq(piece, 1, k - 1)
      value == IF k = 0 THEN <<>> ELSE SubSeq(piece, k + 1, Len(piece))
  IN  [name |-> PercentDecode(PlusToSpace(name)), value |-> PercentDecode(PlusToSpace(value))]

RECURSIVE ParsePieces(_)
ParsePieces(pieces) ==
  IF pieces = <<>> THEN <<>>
  ELSE (IF Head(pieces) = <<>> THEN <<>> ELSE <<ParsePair(Head(pieces))>>) \o ParsePieces(Tail(pieces))

\* new URLSearchParams(text): a leading '?' is dropped, the text is cut at '&',
\* empty pieces are skipped
URLSearchParams(text) ==
  LET body == IF Len(text) > 0 /\ text[1] = "?" THEN Tail(text) ELSE text
  IN  ParsePieces(Split(body, "&"))

ParamsHas(params, name) == \E i \in 1..Len(params) : params[i].name = name

\* params.get(name): the value of the first pair with that name; only called
\* when ParamsHas holds (get returns null otherwise)
ParamsGet(params, name) == params[CHOOSE i \in 1..Len(params) : params[i].name = name /\ \A j \in 1..(i - 1) : params[j].name # name].value

\* params.toString() of pairs set in this order
RECURSIVE ParamsToString(_)
ParamsToString(params) ==
  IF params = <<>> THEN <<>>
  ELSE UrlEncode(params[1].name) \o <<"=">> \o UrlEncode(params[1].value)
       \o (IF Len(params) = 1 THEN <<>> ELSE <<"&">> \o ParamsToString(Tail(params)))

(***************************************************************************)
(* URL state codec (urlState.ts)                                           *)
(***************************************************************************)
\* Variant: the '#' of each hex is not removed.
encodePaletteToUrlKeepHash(p) ==
  LET colorHexes == [i \in 1..Len(p.colors) |-> p.colors[i].hex]
      locks == [i \in 1..Len(p.colors) |-> IF p.colors[i].locked THEN "1" ELSE "0"]
      base == << [name |-> ColorsKey, value |-> Join(colorHexes, ",")],
                 [name |-> LocksKey, value |-> locks] >>
  IN  ParamsToString(IF p.harmonyRule # Undefined
                     THEN Append(base, [name |-> HarmonyKey, value |-> RuleText(p.harmonyRule)])
                     ELSE base)

encodePaletteToUrl(p) ==
  LET colorHexes == [i \in 1..Len(p.colors) |-> RemoveFirstHash(p.colors[i].hex)]
      locks == [i \in 1..Len(p.colors) |-> IF p.colors[i].locked THEN "1" ELSE "0"]
      base == << [name |-> ColorsKey, value |-> Join(colorHexes, ",")],
                 [name |-> LocksKey, value |-> locks] >>
  IN  ParamsToString(IF p.harmonyRule # Undefined
                     THEN Append(base, [name |-> HarmonyKey, value |-> RuleText(p.harmonyRule)])
                     ELSE base)

\* Variant: /^[0-9A-F]{6}$/, upper case only.
IsUpperHexColor(hex) == Len(hex) = 6 /\ \A i \in 1..6 : IsUpperHexDigit(hex[i])

\* /^[0-9A-Fa-f]{6}$/.test(hex)
IsHexColor(hex) == Len(hex) = 6 /\ \A i \in 1..6 : IsHexDigit(hex[i])

\* Variant: /^.{5}$/, any five characters.
IsFiveCharText(t) == Len(t) = 5

\* /^[01]{5}$/.test(locksParam)
IsLockText(t) == Len(t) = 5 /\ \A i \in 1..5 : t[i] \in {"0", "1"}

\* Variant: rgb recomputed from the rounded hsl and not parsed from the hex.
DecodedColorRgbFromHsl(hex, locked) ==
  LET fullHex == <<"#">> \o toUpperCase(hex)
      hsl == hexToHsl(fullHex)
  IN  [hex |-> fullHex, rgb |-> hslToRgb(hsl), hsl |-> hsl, locked |-> locked]

\* the colour decoded from one validated token
DecodedColor(hex, locked) ==
  LET fullHex == <<"#">> \o toUpperCase(hex)
      rgb == hexToRgb(fullHex)
  IN  [hex |-> fullHex, rgb |-> rgb, hsl |-> rgbToHsl(rgb), locked |-> locked]

\* validRules.includes(harmonyParam)
RuleOfText(t) ==
  IF \E r \in RuleNames : RuleText(r) = t THEN CHOOSE r \in RuleNames : RuleText(r) = t ELSE Undefined

decodePaletteFromUrl(urlHash) ==
  LET cleanHash == StripHash(urlHash)
      params == URLSearchParams(cleanHash)
      colorsParam == IF ParamsHas(params, ColorsKey) THEN ParamsGet(params, ColorsKey) ELSE <<>>
      hexColors == Split(colorsParam, ",")
      locksParam == IF ParamsHas(params, LocksKey) THEN ParamsGet(params, LocksKey) ELSE <<>>
      locksValid == locksParam # <<>> /\ IsLockText(locksParam)
      harmonyParam == IF ParamsHas(params, HarmonyKey) THEN ParamsGet(params, HarmonyKey) ELSE <<>>
  IN  IF cleanHash = <<>> THEN NullPalette
      ELSE IF colorsParam = <<>> THEN NullPalette
      ELSE IF Len(hexColors) # 5 THEN NullPalette
      ELSE IF \E i \in 1..5 : ~IsHexColor(hexColors[i]) THEN NullPalette
      ELSE [colors |-> [i \in 1..5 |-> DecodedColor(hexColors[i], locksValid /\ locksParam[i] = "1")],
            harmonyRule |-> IF harmonyParam # <<>> THEN RuleOfText(harmonyParam) ELSE Undefined]

(***************************************************************************)
(* Inputs of the model                                                     *)
(***************************************************************************)
\* the byte triples the random source can yield for a random colour
RandomBytes == { <<255, 0, 0>>, <<18, 52, 86>> }

\* placeholder for random bytes that are never read
DummyRnd == [j \in 1..PaletteSize |-> <<0, 0, 0>>]

\* Colours of the palettes handed to generateRandomPalette: pure red, a grey
\* (every hue gives the same hex), a dark blue whose lightness is at the lower
\* clamp of the generators, and a colour whose hex, rgb and hsl are unrelated
\* (the caller may pass any Color).
Red == createColorFromHsl(Hsl(0, 100, 50))
Grey == createColorFromHsl(Hsl(0, 0, 50))
DarkBlue == createColorFromHsl(Hsl(210, 50, 20))
Odd == [hex |-> <<"#","1","2","3","4","5","6">>, rgb |-> [r |-> 1, g |-> 2, b |-> 3], hsl |-> Hsl(360, 100, 100), locked |-> FALSE]
GenColorRows ==
  { <<Red, Grey, DarkBlue, Red, Grey>>,
    <<Grey, Grey, Red, DarkBlue, DarkBlue>>,
    <<DarkBlue, Red, Red, Grey, Red>>,
    <<Odd, DarkBlue, Odd, Grey, Red>> }

\* no palette, the empty palette, and the first n colours (n = 1..5) of each
\* row under every combination of lock flags
GenInputs ==
  {NoPalette} \cup
  {[colors |-> [i \in 1..n |-> [row[i] EXCEPT !.locked = locks[i]]], harmonyRule |-> "triadic"] :
     row \in GenColorRows, n \in 0..PaletteSize, locks \in [1..PaletteSize -> BOOLEAN]}

\* seeds of the harmony generators: every hue, a few saturations and lightnesses
SeedColors == {createColorFromHsl(Hsl(h, sat, l)) : h \in (0..360), sat \in {0, 5, 60, 100}, l \in {0, 10, 50, 95, 100}}

\* palettes handed to the codec: 5 colours out of two, any locks, any rule or none
CodecColors == {DecodedColor(Tail(h), b) : h \in {<<"#", "F", "F", "0", "0", "0", "0">>, <<"#", "0", "A", "1", "B", "2", "C">>}, b \in BOOLEAN}
CodecPalettes == {[colors |-> cs, harmonyRule |-> r] : cs \in [1..PaletteSize -> CodecColors], r \in RuleNames \cup {Undefined}}

\* the pieces the texts handed to decodePaletteFromUrl are put together from
RECURSIVE DropEmpty(_)
DropEmpty(parts) ==
  IF parts = <<>> THEN <<>>
  ELSE (IF Head(parts) = <<>> THEN <<>> ELSE <<Head(parts)>>) \o DropEmpty(Tail(parts))

UrlInputs ==
  LET
    UrlPrefixes ==
      { <<>>,
        <<"#">>,
        <<"#", "#">>,
        <<"?">>,
        <<"#", "?">> }
    UrlColorParts ==
      { <<>>,
        <<"c", "o", "l", "o", "r", "s", "=", "F", "F", "0", "0", "0", "0", ",", "0", "0", "F", "F", "0", "0", ",", "0", "0", "0", "0", "F", "F", ",", "F", "F", "F", "F", "0", "0", ",", "F", "F", "0", "0", "F", "F">>,
        <<"c", "o", "l", "o", "r", "s", "=", "f", "f", "0", "0", "0", "0", "%", "2", "C", "0", "0", "f", "f", "0", "0", "%", "2", "C", "0", "0", "0", "0", "F", "f", "%", "2", "C", "F", "F", "F", "F", "0", "0", "%", "2", "c", "f", "f", "0", "0", "f", "f">>,
        <<"c", "o", "l", "o", "r", "s", "=", "F", "F", "0", "0", "0", "0", ",", "0", "0", "F", "F", "0", "0", ",", "0", "0", "0", "0", "F", "F">>,
        <<"c", "o", "l", "o", "r", "s", "=", "F", "F", "0", "0", "0", "0", ",", "0", "0", "F", "F", "0", "0", ",", "0", "0", "0", "0", "F", "F", ",", "F", "F", "F", "F", "0", "0", ",", "F", "F", "0", "0", "F", "F", ",", "0", "0", "F", "F", "F", "F">>,
        <<"c", "o", "l", "o", "r", "s", "=", "G", "G", "G", "G", "G", "G", ",", "0", "0", "F", "F", "0", "0", ",", "0", "0", "0", "0", "F", "F", ",", "F", "F", "F", "F", "0", "0", ",", "F", "F", "0", "0", "F", "F">>,
        <<"c", "o", "l", "o", "r", "s", "=", "F", "F", "0", "0", ",", "0", "0", "F", "F", "0", "0", ",", "0", "0", "0", "0", "F", "F", ",", "F", "F", "F", "F", "0", "0", ",", "F", "F", "0", "0", "F", "F">>,
        <<"c", "o", "l", "o", "r", "s", "=", "F", "F", "0", "0", "0", "0", "0", ",", "0", "0", "F", "F", "0", "0", ",", "0", "0", "0", "0", "F", "F", ",", "F", "F", "F", "F", "0", "0", ",", "F", "F", "0", "0", "F", "F">>,
        <<"c", "o", "l", "o", "r", "s", "=">>,
        <<"c", "o", "l", "o", "r", "s">>,
        <<"c", "o", "l", "o", "r", "s", "=", "F", "F", "0", "0", "0", "0", ",", "0", "0", "F", "F", "0", "0", ",", "0", "0", "0", "0", "F", "F", ",", "F", "F", "F", "F", "0", "0", ",">>,
        <<"c", "o", "l", "o", "r", "s", "=", "F", "F", "0", "0", "0", "0", ",", "0", "0", "F", "F", "0", "0", ",", "0", "0", "0", "0", "F", "F", ",", "F", "F", "F", "F", "0", "0", ",", "F", "F", "0", "0", "F", "+">>,
        <<"C", "o", "l", "o", "r", "s", "=", "F", "F", "0", "0", "0", "0", ",", "0", "0", "F", "F", "0", "0", ",", "0", "0", "0", "0", "F", "F", ",", "F", "F", "F", "F", "0", "0", ",", "F", "F", "0", "0", "F", "F">>,
        <<"c", "o", "l", "o", "r", "s", "=", "&", "c", "o", "l", "o", "r", "s", "=", "F", "F", "0", "0", "0", "0", ",", "0", "0", "F", "F", "0", "0", ",", "0", "0", "0", "0", "F", "F", ",", "F", "F", "F", "F", "0", "0", ",", "F", "F", "0", "0", "F", "F">>,
        <<"c", "o", "l", "o", "r", "s", "=", "%", "4", "6", "F", "0", "0", "0", "0", ",", "0", "0", "F", "F", "0", "0", ",", "0", "0", "0", "0", "F", "F", ",", "F", "F", "F", "F", "0", "0", ",", "F", "F", "0", "0", "F", "F">> }
    UrlLockParts ==
      { <<>>,
        <<"l", "o", "c", "k", "s", "=", "1", "0", "1", "0", "1">>,
        <<"l", "o", "c", "k", "s", "=", "1", "1", "1", "1", "1">>,
        <<"l", "o", "c", "k", "s", "=", "0", "0", "0", "0", "0">>,
        <<"l", "o", "c", "k", "s", "=", "1", "1", "1">>,
        <<"l", "o", "c", "k", "s", "=", "i", "n", "v", "a", "l", "i", "d">>,
        <<"l", "o", "c", "k", "s", "=">>,
        <<"l", "o", "c", "k", "s", "=", "1", "0", "1", "0", "1", "2">>,
        <<"l", "o", "c", "k", "s", "=", "1", "x", "1", "0", "1">>,
        <<"l", "o", "c", "k", "s", "=", "0", "0", "0", "0", "0", "&", "l", "o", "c", "k", "s", "=", "1", "1", "1", "1", "1">>,
        <<"l", "o", "c", "k", "s", "=", "%", "3", "1", "%", "3", "0", "%", "3", "1", "%", "3", "0", "%", "3", "1">> }
    UrlHarmonyParts ==
      { <<>>,
        <<"h", "a", "r", "m", "o", "n", "y", "=", "t", "r", "i", "a", "d", "i", "c">>,
        <<"h", "a", "r", "m", "o", "n", "y", "=", "m", "o", "n", "o", "c", "h", "r", "o", "m", "a", "t", "i", "c">>,
        <<"h", "a", "r", "m", "o", "n", "y", "=", "i", "n", "v", "a", "l", "i", "d">>,
        <<"h", "a", "r", "m", "o", "n", "y", "=">>,
        <<"h", "a", "r", "m", "o", "n", "y", "=", "T", "r", "i", "a", "d", "i", "c">>,
        <<"h", "a", "r", "m", "o", "n", "y", "=", "a", "n", "a", "l", "o", "g", "o", "u", "s", "&", "h", "a", "r", "m", "o", "n", "y", "=", "t", "e", "t", "r", "a", "d", "i", "c">> }
  IN
  {pre \o Join(DropEmpty(IF rev THEN <<h, l, c>> ELSE <<c, l, h>>), "&") :
     pre \in UrlPrefixes, c \in UrlColorParts, l \in UrlLockParts, h \in UrlHarmonyParts, rev \in BOOLEAN}

\* the location hash the application can be started with
UrlStartInputs ==
  { <<>>,
    <<"#", "c", "o", "l", "o", "r", "s", "=", "F", "F", "0", "0", "0", "0", ",", "0", "0", "F", "F", "0", "0", ",", "0", "0", "0", "0", "F", "F", ",", "F", "F", "F", "F", "0", "0", ",", "F", "F", "0", "0", "F", "F", "&", "l", "o", "c", "k", "s", "=", "1", "0", "1", "0", "0">>,
    <<"#", "c", "o", "l", "o", "r", "s", "=", "F", "0", "0", "2", "E", "A", ",", "0", "0", "0", "0", "1", "7", ",", "8", "0", "8", "0", "8", "0", ",", "1", "2", "3", "4", "5", "F", ",", "F", "F", "F", "F", "F", "F", "&", "l", "o", "c", "k", "s", "=", "0", "0", "1", "0", "0", "&", "h", "a", "r", "m", "o", "n", "y", "=", "t", "r", "i", "a", "d", "i", "c">> }

\* the random colour of the runs of the hook
HookRandomBytes == { <<18, 52, 86>> }

\* the slider movements of the model: component and new value
SliderInputs == {<<"h", 360>>, <<"s", 0>>, <<"l", 95>>}

\* the swatches whose lock and sliders the model operates
SwatchInputs == {0, 3}

\* the indices passed to toggleLock and updateColor when called directly
IndexInputs == {-1, 0, PaletteSize}

(***************************************************************************)
(* Pure functions as one-step state machines: arg is the input, res the    *)
(* result, fn says which function has been applied.  An action binds the   *)
(* value of a variable (\E x \in {v}) before it hands it to an operator, so *)
(* that the operator is evaluated on a value and not on an expression.     *)
(***************************************************************************)
HookIdle ==
  /\ palette = NoPalette
  /\ pending = <<>>
  /\ hash = <<>>
  /\ swatchHsl = <<>>
  /\ edited = <<>>
  /\ committed = <<>>
  /\ steps = 0
  /\ app = NoApp

PureIdle == fn = "none" /\ arg = NoPalette /\ res = NoPalette

\* generateRandomPalette(arg)
InitGen == arg \in GenInputs /\ fn = "input" /\ res = NoPalette /\ HookIdle

GenerateStep ==
  /\ fn = "input"
  /\ \E currentPalette \in {arg}, k \in 0..(Len(HarmonyRules) - 1) :
       \E rnd \in [1..generateRandomPaletteRun(currentPalette, k, DummyRnd).used -> RandomBytes] :
         res' = generateRandomPalette(currentPalette, k, rnd)
  /\ fn' = "generateRandomPalette"
  /\ UNCHANGED <<arg, hookVars>>

NextGen == GenerateStep

SpecGen == InitGen /\ [][NextGen]_vars

\* generatePaletteByRule(arg, rule)
InitHarmony == arg \in SeedColors /\ fn = "input" /\ res = <<>> /\ HookIdle

HarmonyStep ==
  /\ fn = "input"
  /\ \E baseColor \in {arg}, rule \in RuleNames : res' = generatePaletteByRule(baseColor, rule) /\ fn' = rule
  /\ UNCHANGED <<arg, hookVars>>

NextHarmony == HarmonyStep

SpecHarmony == InitHarmony /\ [][NextHarmony]_vars

\* encodePaletteToUrl(arg), then decodePaletteFromUrl of the text
InitCodec == arg \in CodecPalettes /\ fn = "input" /\ res = <<>> /\ HookIdle

EncodeStep ==
  /\ fn = "input"
  /\ \E p \in {arg} : res' = encodePaletteToUrl(p)
  /\ fn' = "encodePaletteToUrl"
  /\ UNCHANGED <<arg, hookVars>>

DecodeEncodedStep ==
  /\ fn = "encodePaletteToUrl"
  /\ \E urlHash \in {res} : res' = decodePaletteFromUrl(urlHash)
  /\ fn' = "decodePaletteFromUrl"
  /\ UNCHANGED <<arg, hookVars>>

NextCodec == EncodeStep \/ DecodeEncodedStep

SpecCodec == InitCodec /\ [][NextCodec]_vars

\* decodePaletteFromUrl(arg)
InitDecode == arg \in UrlInputs /\ fn = "input" /\ res = NullPalette /\ HookIdle

DecodeStep ==
  /\ fn = "input"
  /\ \E urlHash \in {arg} : res' = decodePaletteFromUrl(urlHash)
  /\ fn' = "decodePaletteFromUrl"
  /\ UNCHANGED <<arg, hookVars>>

NextDecode == DecodeStep

SpecDecode == InitDecode /\ [][NextDecode]_vars

(***************************************************************************)
(* The usePalette hook (usePalette.ts) with the swatches that call it      *)
(*                                                                         *)
(* palette    the palette state as of the last render                      *)
(* pending    the state updates queued since the last render, in order     *)
(* hash       window.location.hash                                         *)
(* swatchHsl  the hsl state of the five ColorSwatch components             *)
(* edited     history: edited[i] holds while the colour at index i is one  *)
(*            a slider change stored and no lock toggle touched it since   *)
(* committed  history: the updates applied by the last render              *)
(* steps      number of callbacks invoked so far                           *)
(***************************************************************************)
NoColor == [hex |-> <<>>, rgb |-> [r |-> 0, g |-> 0, b |-> 0], hsl |-> Hsl(0, 0, 0), locked |-> FALSE]

\* window.location.hash after the assignment window.location.hash = text
LocationHash(text) == IF text = <<>> THEN <<>> ELSE <<"#">> \o text

\* Variant: the colour is locked whatever its flag was.
toggleLockAlwaysLocks(prevPalette, index) ==
  IF index < 0 \/ index >= Len(prevPalette.colors) THEN prevPalette
  ELSE [prevPalette EXCEPT !.colors[index + 1].locked = TRUE]

\* the updater toggleLock(index) passes to setPalette
toggleLock(prevPalette, index) ==
  IF index < 0 \/ index >= Len(prevPalette.colors) THEN prevPalette
  ELSE [prevPalette EXCEPT !.colors[index + 1].locked = ~prevPalette.colors[index + 1].locked]

\* Variant: no range test on the index; an assignment at index = length
\* lengthens the array, one at a negative index leaves its elements alone.
updateColorUnchecked(prevPalette, index, color) ==
  IF index < 0 \/ index > Len(prevPalette.colors) THEN prevPalette
  ELSE IF index = Len(prevPalette.colors) THEN [prevPalette EXCEPT !.colors = Append(@, color)]
  ELSE [prevPalette EXCEPT !.colors[index + 1] = color]

\* the updater updateColor(index, color) passes to setPalette
updateColor(prevPalette, index, color) ==
  IF index < 0 \/ index >= Len(prevPalette.colors) THEN prevPalette
  ELSE [prevPalette EXCEPT !.colors[index + 1] = color]

\* Variant: the emitted colour is not marked locked.
handleSliderChangeUnlocked(hsl, property, value) ==
  Only({
    [hex |-> hslToHex(newHsl), rgb |-> hslToRgb(newHsl), hsl |-> newHsl, locked |-> FALSE]
    : newHsl \in {[hsl EXCEPT ![property] = value]} })

\* Variant: hex and rgb are computed from the hsl before the change.
handleSliderChangeStaleHex(hsl, property, value) ==
  Only({[hex |-> hslToHex(hsl), rgb |-> hslToRgb(hsl), hsl |-> newHsl, locked |-> TRUE]
        : newHsl \in {[hsl EXCEPT ![property] = value]} })

\* ColorSwatch.handleSliderChange: the colour passed to onColorChange
handleSliderChange(hsl, property, value) ==
  Only({
    [hex |-> hslToHex(newHsl), rgb |-> hslToRgb(newHsl), hsl |-> newHsl, locked |-> TRUE]
    : newHsl \in {[hsl EXCEPT ![property] = value]} })

\* one queued update applied to the palette
ApplyUpdate(p, u) ==
  CASE u.op = "set" -> u.value
    [] u.op = "toggle" -> toggleLock(p, u.index)
    [] u.op = "update" -> updateColor(p, u.index, u.color)

RECURSIVE ApplyAll(_, _)
ApplyAll(p, updates) ==
  IF updates = <<>> THEN p ELSE ApplyAll(ApplyUpdate(p, Head(updates)), Tail(updates))

\* the swatch states after the queued setHsl calls
RECURSIVE ApplySwatch(_, _)
ApplySwatch(sw, updates) ==
  IF updates = <<>> THEN sw
  ELSE LET u == Head(updates)
       IN  ApplySwatch(IF u.op = "update" /\ u.slider THEN [sw EXCEPT ![u.index + 1] = u.color.hsl] ELSE sw,
                       Tail(updates))

\* history of slider edits through the queued updates; a palette set by
\* generatePalette was computed from the palette of the last render
RECURSIVE ApplyEdited(_, _, _)
ApplyEdited(e, e0, updates) ==
  IF updates = <<>> THEN e
  ELSE LET u == Head(updates)
           valid == u.index >= 0 /\ u.index < PaletteSize
       IN  ApplyEdited(CASE u.op = "set" -> e0
                         [] u.op = "toggle" -> IF valid THEN [e EXCEPT ![u.index + 1] = FALSE] ELSE e
                         [] u.op = "update" -> IF valid THEN [e EXCEPT ![u.index + 1] = u.slider] ELSE e,
                       e0, Tail(updates))

\* the effect that follows a render
SyncUrl(p) == LocationHash(encodePaletteToUrl(p))

\* a callback can run and queue one more update
CanQueue == steps < MaxSteps /\ Len(pending) < MaxPending

\* setPalette(u): the update waits for the next render
Queue(u) ==
  /\ pending' = Append(pending, u)
  /\ steps' = steps + 1
  /\ UNCHANGED <<palette, hash, swatchHsl, edited, committed, pureVars, app>>

\* mount: the palette comes from the location hash or is generated, the
\* effect writes the hash, every swatch takes the hsl of its colour
InitHook ==
  /\ \E u \in UrlStartInputs :
       \E urlPalette \in {decodePaletteFromUrl(u)} :
         IF urlPalette # NullPalette THEN palette = urlPalette
         ELSE \E k \in 0..(Len(HarmonyRules) - 1), b \in HookRandomBytes :
                palette = generateRandomPalette(NoPalette, k, <<b>>)
  /\ hash = SyncUrl(palette)
  /\ swatchHsl = [i \in 1..PaletteSize |-> palette.colors[i].hsl]
  /\ pending = <<>>
  /\ edited = [i \in 1..PaletteSize |-> FALSE]
  /\ committed = <<>>
  /\ steps = 0
  /\ PureIdle
  /\ app = NoApp

\* generatePalette(): the new palette is computed from the palette of the
\* last render
GeneratePalette ==
  /\ CanQueue
  /\ \E current \in {palette}, k \in 0..(Len(HarmonyRules) - 1) :
       \E rnd \in [1..generateRandomPaletteRun(current, k, DummyRnd).used -> HookRandomBytes] :
         Queue([op |-> "set", index |-> 0, color |-> NoColor, slider |-> FALSE,
                value |-> generateRandomPalette(current, k, rnd)])

\* a click on the lock of swatch i
ToggleLock ==
  /\ CanQueue
  /\ \E i \in SwatchInputs :
       Queue([op |-> "toggle", index |-> i, color |-> NoColor, slider |-> FALSE, value |-> NoPalette])

\* a slider of swatch i moves
SliderChange ==
  /\ CanQueue
  /\ \E i \in SwatchInputs, move \in SliderInputs :
       \E hsl \in {swatchHsl[i + 1]} :
         Queue([op |-> "update", index |-> i, color |-> handleSliderChange(hsl, move[1], move[2]),
                slider |-> TRUE, value |-> NoPalette])

\* Variant: a render without the effect that writes the location hash.
RenderWithoutEffect ==
  /\ pending # <<>>
  /\ palette' = ApplyAll(palette, pending)
  /\ swatchHsl' = ApplySwatch(swatchHsl, pending)
  /\ edited' = ApplyEdited(edited, edited, pending)
  /\ committed' = [i \in 1..Len(pending) |-> [op |-> pending[i].op, index |-> pending[i].index]]
  /\ pending' = <<>>
  /\ UNCHANGED <<hash, steps, pureVars, app>>

\* React renders: the queued updates are applied in order, the effect syncs
\* the URL
Render ==
  /\ pending # <<>>
  /\ \E p \in {ApplyAll(palette, pending)} :
       /\ palette' = p
       /\ hash' = IF p # palette THEN SyncUrl(p) ELSE hash
  /\ swatchHsl' = ApplySwatch(swatchHsl, pending)
  /\ edited' = ApplyEdited(edited, edited, pending)
  /\ committed' = [i \in 1..Len(pending) |-> [op |-> pending[i].op, index |-> pending[i].index]]
  /\ pending' = <<>>
  /\ UNCHANGED <<steps, pureVars, app>>

Next == GeneratePalette \/ ToggleLock \/ SliderChange \/ Render

Spec == InitHook /\ [][Next]_vars

\* the hook called directly: any index, any colour
ApiColors == {Red, [DarkBlue EXCEPT !.locked = TRUE]}

ToggleLockCall ==
  /\ CanQueue
  /\ \E i \in IndexInputs :
       Queue([op |-> "toggle", index |-> i, color |-> NoColor, slider |-> FALSE, value |-> NoPalette])

UpdateColorCall ==
  /\ CanQueue
  /\ \E i \in IndexInputs, c \in ApiColors :
       Queue([op |-> "update", index |-> i, color |-> c, slider |-> FALSE, value |-> NoPalette])

NextApi == GeneratePalette \/ ToggleLockCall \/ UpdateColorCall \/ Render

SpecApi == InitHook /\ [][NextApi]_vars

\* the same two steps from the palettes the application shares: palettes of the
\* harmony generators, and these with one colour moved by a slider
GeneratedPalettes ==
  {[colors |-> generatePaletteByRule(createColorFromHsl(seed), rule), harmonyRule |-> rule]
     : seed \in {Hsl(h, sat, l) : h \in {0, 210, 302, 360}, sat \in {0, 60, 98}, l \in {10, 47}}, rule \in RuleNames}
EditedPalettes ==
  {[p EXCEPT !.colors[1] = handleSliderChange(p.colors[1].hsl, move[1], move[2])]
     : p \in GeneratedPalettes, move \in SliderInputs}
SharePalettes == GeneratedPalettes \cup EditedPalettes

InitShare == arg \in SharePalettes /\ fn = "input" /\ res = <<>> /\ HookIdle

SpecShare == InitShare /\ [][NextCodec]_vars

(***************************************************************************)
(* Conversion round trips (colorConversions.ts)                            *)
(***************************************************************************)
\* texts hexToRgb accepts: three two-digit groups of either case, with or
\* without a leading '#'
HexGroups == {<<"0","0">>, <<"0","A">>, <<"a","0">>, <<"7","f">>, <<"C","3">>, <<"f","f">>, <<"F","F">>}
HexInputs == {prefix \o g1 \o g2 \o g3 : prefix \in {<<>>, <<"#">>}, g1 \in HexGroups, g2 \in HexGroups, g3 \in HexGroups}

\* hexToRgb(arg), then rgbToHex of the result
InitHex == arg \in HexInputs /\ fn = "input" /\ res = <<>> /\ HookIdle

HexToRgbStep ==
  /\ fn = "input"
  /\ \E hex \in {arg} : res' = hexToRgb(hex)
  /\ fn' = "hexToRgb"
  /\ UNCHANGED <<arg, hookVars>>

RgbToHexStep ==
  /\ fn = "hexToRgb"
  /\ \E rgb \in {res} : res' = rgbToHex(rgb)
  /\ fn' = "rgbToHex"
  /\ UNCHANGED <<arg, hookVars>>

NextHex == HexToRgbStep \/ RgbToHexStep

SpecHex == InitHex /\ [][NextHex]_vars

\* RGB inputs: every channel from a set with the ends of the range, near-equal
\* and distant values
RgbChannels == {0, 1, 17, 21, 68, 121, 184, 208, 233, 253, 255}
RgbInputs == {[r |-> r, g |-> g, b |-> b] : r \in RgbChannels, g \in RgbChannels, b \in RgbChannels}

\* rgbToHsl(arg), then hslToRgb of the result
InitRgb == arg \in RgbInputs /\ fn = "input" /\ res = <<>> /\ HookIdle

RgbToHslStep ==
  /\ fn = "input"
  /\ \E rgb \in {arg} : res' = rgbToHsl(rgb)
  /\ fn' = "rgbToHsl"
  /\ UNCHANGED <<arg, hookVars>>

HslToRgbStep ==
  /\ fn = "rgbToHsl"
  /\ \E hsl \in {res} : res' = hslToRgb(hsl)
  /\ fn' = "hslToRgb"
  /\ UNCHANGED <<arg, hookVars>>

NextRgb == RgbToHslStep \/ HslToRgbStep

SpecRgb == InitRgb /\ [][NextRgb]_vars

\* HSL inputs: hues over the circle with both ends, saturations and
\* lightnesses inside and outside the band s > 5, 5 < l < 95
HslInputs == {Hsl(h, sat, l) : h \in {0, 1, 30, 47, 120, 200, 285, 359, 360}, sat \in {3, 6, 20, 64, 77, 100}, l \in {3, 6, 34, 50, 77, 94, 97}}

\* hslToRgb(arg), then rgbToHsl of the result
InitHsl == arg \in HslInputs /\ fn = "input" /\ res = <<>> /\ HookIdle

HslToRgbFirstStep ==
  /\ fn = "input"
  /\ \E hsl \in {arg} : res' = hslToRgb(hsl)
  /\ fn' = "hslToRgb"
  /\ UNCHANGED <<arg, hookVars>>

RgbToHslBackStep ==
  /\ fn = "hslToRgb"
  /\ \E rgb \in {res} : res' = rgbToHsl(rgb)
  /\ fn' = "rgbToHsl"
  /\ UNCHANGED <<arg, hookVars>>

NextHsl == HslToRgbFirstStep \/ RgbToHslBackStep

SpecHsl == InitHsl /\ [][NextHsl]_vars

(***************************************************************************)
(* Contrast (contrastCalculations.ts) and ContrastIndicator                *)
(***************************************************************************)
\* Math.pow((c / 255 + 0.055) / 1.055, 2.4) for c = 0..255, in units of
\* 1/10000 rounded to the nearest unit; entry c + 1 is the value for c
GammaTable == <<
    0, 3, 6, 9, 12, 15, 18, 21, 24, 27, 30, 33, 37, 40, 44, 48,
    52, 56, 60, 65, 70, 75, 80, 86, 91, 97, 103, 110, 116, 123, 130, 137,
    144, 152, 160, 168, 176, 185, 194, 203, 212, 222, 232, 242, 252, 262, 273, 284,
    296, 307, 319, 331, 343, 356, 369, 382, 395, 409, 423, 437, 452, 467, 482, 497,
    513, 529, 545, 561, 578, 595, 612, 630, 648, 666, 685, 704, 723, 742, 762, 782,
    802, 823, 844, 865, 887, 908, 931, 953, 976, 999, 1022, 1046, 1070, 1095, 1119, 1144,
    1170, 1195, 1221, 1248, 1274, 1301, 1329, 1356, 1384, 1413, 1441, 1470, 1500, 1529, 1559, 1590,
    1620, 1651, 1683, 1714, 1746, 1779, 1812, 1845, 1878, 1912, 1946, 1981, 2016, 2051, 2086, 2122,
    2159, 2195, 2232, 2270, 2307, 2346, 2384, 2423, 2462, 2502, 2542, 2582, 2623, 2664, 2705, 2747,
    2789, 2831, 2874, 2918, 2961, 3005, 3050, 3095, 3140, 3185, 3231, 3278, 3325, 3372, 3419, 3467,
    3515, 3564, 3613, 3663, 3712, 3763, 3813, 3864, 3916, 3968, 4020, 4072, 4125, 4179, 4233, 4287,
    4342, 4397, 4452, 4508, 4564, 4621, 4678, 4735, 4793, 4851, 4910, 4969, 5029, 5089, 5149, 5210,
    5271, 5333, 5395, 5457, 5520, 5583, 5647, 5711, 5776, 5841, 5906, 5972, 6038, 6105, 6172, 6240,
    6308, 6376, 6445, 6514, 6584, 6654, 6724, 6795, 6867, 6939, 7011, 7084, 7157, 7231, 7305, 7379,
    7454, 7529, 7605, 7682, 7758, 7835, 7913, 7991, 8070, 8148, 8228, 8308, 8388, 8469, 8550, 8632,
    8714, 8796, 8879, 8963, 9047, 9131, 9216, 9301, 9387, 9473, 9560, 9647, 9734, 9823, 9911, 10000 >>

\* one channel after gamma correction, in units of 1/10000:
\* c / 255 <= 0.03928 ? (c / 255) / 12.92 : Math.pow(...)
Linearized(c) ==
  IF c * 100000 <= 3928 * 255 THEN MathRound(c * 1000000, 255 * 1292) ELSE GammaTable[c + 1]

\* 0.2126 * r + 0.7152 * g + 0.0722 * b, in units of 1/100000000
getRelativeLuminance(rgb) ==
  2126 * Linearized(rgb.r) + 7152 * Linearized(rgb.g) + 722 * Linearized(rgb.b)

\* Variant: the two luminances are not ordered.
calculateContrastRatioUnordered(rgb1, rgb2) ==
  [num |-> getRelativeLuminance(rgb1) + 5000000, den |-> getRelativeLuminance(rgb2) + 5000000]

\* (lighter + 0.05) / (darker + 0.05), kept as numerator and denominator
calculateContrastRatio(rgb1, rgb2) ==
  LET lum1 == getRelativeLuminance(rgb1)
      lum2 == getRelativeLuminance(rgb2)
      lighter == Max2(lum1, lum2)
      darker == Min2(lum1, lum2)
  IN  [num |-> lighter + 5000000, den |-> darker + 5000000]

\* ratio >= 4.5
meetsWCAG_AA(ratio) == 2 * ratio.num >= 9 * ratio.den

\* ratio >= 7.0
meetsWCAG_AAA(ratio) == ratio.num >= 7 * ratio.den

\* Variant: the AA badge is rendered whenever meetsAA holds.
ContrastIndicatorTwoBadges(color1, color2) ==
  LET ratio == calculateContrastRatio(color1.rgb, color2.rgb)
      meetsAA == meetsWCAG_AA(ratio)
      meetsAAA == meetsWCAG_AAA(ratio)
  IN  [ratio |-> ratio,
       shown |-> (IF meetsAAA THEN {"badge-aaa"} ELSE {})
                 \cup (IF meetsAA THEN {"badge-aa"} ELSE {})
                 \cup (IF ~meetsAA THEN {"warning-icon", "badge-warning"} ELSE {})]

\* ContrastIndicator: the ratio and the data-testid of each element rendered
\* beside the tooltip
ContrastIndicator(color1, color2) ==
  LET ratio == calculateContrastRatio(color1.rgb, color2.rgb)
      meetsAA == meetsWCAG_AA(ratio)
      meetsAAA == meetsWCAG_AAA(ratio)
  IN  [ratio |-> ratio,
       shown |-> (IF meetsAAA THEN {"badge-aaa"} ELSE {})
                 \cup (IF meetsAA /\ ~meetsAAA THEN {"badge-aa"} ELSE {})
                 \cup (IF ~meetsAA THEN {"warning-icon", "badge-warning"} ELSE {})]

\* colours of the pairs: greys on both sides of each threshold against white,
\* primaries and mixed colours
ContrastRgbs ==
  {[r |-> v, g |-> v, b |-> v] : v \in {0, 10, 11, 89, 118, 119, 128, 255}}
  \cup {[r |-> 255, g |-> 0, b |-> 0], [r |-> 0, g |-> 255, b |-> 0], [r |-> 0, g |-> 0, b |-> 255],
        [r |-> 255, g |-> 255, b |-> 0], [r |-> 18, g |-> 52, b |-> 86], [r |-> 240, g |-> 2, b |-> 234],
        [r |-> 0, g |-> 184, b |-> 253], [r |-> 128, g |-> 0, b |-> 0]}
ContrastColors == {[hex |-> rgbToHex(c), rgb |-> c, hsl |-> rgbToHsl(c), locked |-> FALSE] : c \in ContrastRgbs}
ContrastPairs == ContrastColors \X ContrastColors

\* calculateContrastRatio of the pair arg, or ContrastIndicator rendered for it
InitContrast == arg \in ContrastPairs /\ fn = "input" /\ res = <<>> /\ HookIdle

ContrastRatioStep ==
  /\ fn = "input"
  /\ \E pair \in {arg} : res' = calculateContrastRatio(pair[1].rgb, pair[2].rgb)
  /\ fn' = "calculateContrastRatio"
  /\ UNCHANGED <<arg, hookVars>>

ContrastIndicatorStep ==
  /\ fn = "input"
  /\ \E pair \in {arg} : res' = ContrastIndicator(pair[1], pair[2])
  /\ fn' = "ContrastIndicator"
  /\ UNCHANGED <<arg, hookVars>>

NextContrast == ContrastRatioStep \/ ContrastIndicatorStep

SpecContrast == InitContrast /\ [][NextContrast]_vars

(***************************************************************************)
(* Claims                                                                  *)
(***************************************************************************)
\* C1 (SpecGen): for an input palette of 1 to 5 colours with any lock flags,
\* every colour locked at index i of the input is at index i of the output of
\* generateRandomPalette with the same hex, rgb and hsl and with locked = TRUE.
C1_LockedColorsKept ==
  fn = "generateRandomPalette" /\ arg # NoPalette /\ Len(arg.colors) \in 1..PaletteSize =>
    \A i \in 1..Len(arg.colors) :
      arg.colors[i].locked =>
        /\ i <= Len(res.colors)
        /\ res.colors[i].hex = arg.colors[i].hex
        /\ res.colors[i].rgb = arg.colors[i].rgb
        /\ res.colors[i].hsl = arg.colors[i].hsl
        /\ res.colors[i].locked = TRUE

\* a palette of 4 colours, locked ones between unlocked ones, regenerated: the
\* unlocked places changed, one of the new colours is a generated one
C1_Witness ==
  /\ fn = "generateRandomPalette"
  /\ arg # NoPalette
  /\ Len(arg.colors) = 4
  /\ ~arg.colors[1].locked /\ arg.colors[2].locked /\ ~arg.colors[3].locked /\ arg.colors[4].locked
  /\ res.colors[2] = arg.colors[2] /\ res.colors[4] = arg.colors[4]
  /\ res.colors[1] # arg.colors[1] /\ res.colors[3] # arg.colors[3]

\* C2 (SpecGen): generateRandomPalette returns exactly 5 colours and one of the
\* five rule names, for no palette, the empty palette and every palette of 1
\* to 5 colours under every combination of lock flags and every outcome of the
\* random source.
C2_FiveColorsAndRule ==
  fn = "generateRandomPalette" => Len(res.colors) = PaletteSize /\ res.harmonyRule \in RuleNames

\* a palette of 3 colours, all locked: the result has 5, the last two random
C2_Witness ==
  /\ fn = "generateRandomPalette"
  /\ arg # NoPalette
  /\ Len(arg.colors) = 3
  /\ \A i \in 1..3 : arg.colors[i].locked
  /\ Len(res.colors) = PaletteSize
  /\ \E b \in RandomBytes : res.colors[5] = generateRandomColor(b)

\* C3 (SpecApi): after initialisation (from the location hash or by a fresh
\* generation) and after any sequence of generatePalette, toggleLock(i) and
\* updateColor(i, c) with any integer i, the palette has exactly 5 colours.
C3_AlwaysFiveColors == Len(palette.colors) = PaletteSize

\* a render applied an updateColor at index 5 after one at a valid index
C3_Witness ==
  /\ Len(committed) = 2
  /\ committed[1].op = "update" /\ committed[1].index = 0
  /\ committed[2].op = "update" /\ committed[2].index = PaletteSize
  /\ Len(palette.colors) = PaletteSize

\* C4 (SpecCodec): for a palette p of 5 colours whose hex is '#' and 6
\* upper-case hexadecimal digits, with any locks and with or without a rule,
\* decodePaletteFromUrl(encodePaletteToUrl(p)) is not null and has the same
\* hex at every index, the same lock at every index and the same harmonyRule.
C4_RoundTrip ==
  fn = "decodePaletteFromUrl" =>
    /\ res # NullPalette
    /\ Len(res.colors) = PaletteSize
    /\ \A i \in 1..PaletteSize :
         /\ res.colors[i].hex = arg.colors[i].hex
         /\ res.colors[i].locked = arg.colors[i].locked
    /\ res.harmonyRule = arg.harmonyRule

\* a palette without a rule, locked and unlocked colours, after the round trip
C4_Witness ==
  /\ fn = "decodePaletteFromUrl"
  /\ arg.harmonyRule = Undefined
  /\ arg.colors[1].locked /\ ~arg.colors[2].locked
  /\ arg.colors[1].hex # arg.colors[2].hex
  /\ res.harmonyRule = Undefined
  /\ res.colors[1].locked /\ ~res.colors[2].locked

\* C5 (SpecDecode): decodePaletteFromUrl returns null exactly when the text
\* without one leading '#' is empty, or has no colors value, or the colors
\* value split at ',' does not have 5 tokens, or a token is not 6 hexadecimal
\* digits of either case; otherwise it returns 5 colours whatever locks and
\* harmony hold.
C5_NullExactlyWhen ==
  fn = "decodePaletteFromUrl" =>
    \A urlHash \in {arg} :
      LET text == IF Len(urlHash) > 0 /\ urlHash[1] = "#" THEN Tail(urlHash) ELSE urlHash
          params == URLSearchParams(text)
          noColors == ~ParamsHas(params, ColorsKey) \/ ParamsGet(params, ColorsKey) = <<>>
          tokens == Split(ParamsGet(params, ColorsKey), ",")
          sixHex(t) == Len(t) = 6 /\ \A j \in 1..6 : IsHexDigit(t[j])
          fails == \/ text = <<>>
                   \/ noColors
                   \/ Len(tokens) # 5
                   \/ \E i \in 1..Len(tokens) : ~sixHex(tokens[i])
      IN  /\ (res = NullPalette) <=> fails
          /\ res # NullPalette => Len(res.colors) = PaletteSize

\* a text with 5 tokens of which one is not hexadecimal decodes to null
C5_Witness ==
  /\ fn = "decodePaletteFromUrl"
  /\ res = NullPalette
  /\ \A urlHash \in {arg} :
       LET params == URLSearchParams(StripHash(urlHash))
       IN  /\ ParamsHas(params, ColorsKey)
           /\ Len(Split(ParamsGet(params, ColorsKey), ",")) = 5
           /\ Split(ParamsGet(params, ColorsKey), ",")[1] = <<"G", "G", "G", "G", "G", "G">>

\* C6 (SpecDecode): when decoding succeeds, colour i is locked iff the locks
\* value is 5 characters, each '0' or '1', and its character i is '1'; a
\* missing, shorter, longer or otherwise malformed locks value leaves all 5
\* unlocked; harmonyRule is set iff harmony is one of the 5 rule names.
C6_SoftFields ==
  fn = "decodePaletteFromUrl" /\ res # NullPalette =>
    \A urlHash \in {arg} :
      LET params == URLSearchParams(StripHash(urlHash))
          locks == IF ParamsHas(params, LocksKey) THEN ParamsGet(params, LocksKey) ELSE <<>>
          locksOk == Len(locks) = 5 /\ \A j \in 1..5 : locks[j] = "0" \/ locks[j] = "1"
          harmony == IF ParamsHas(params, HarmonyKey) THEN ParamsGet(params, HarmonyKey) ELSE <<>>
      IN  /\ \A i \in 1..PaletteSize : res.colors[i].locked <=> (locksOk /\ locks[i] = "1")
          /\ \A r \in RuleNames : res.harmonyRule = r <=> harmony = RuleText(r)
          /\ res.harmonyRule \in RuleNames \cup {Undefined}

\* a decoded palette whose locks value has 5 characters, one of them not a
\* binary digit, and whose harmony value is no rule name
C6_Witness ==
  /\ fn = "decodePaletteFromUrl"
  /\ res # NullPalette
  /\ \A urlHash \in {arg} :
       LET params == URLSearchParams(StripHash(urlHash))
       IN  /\ ParamsHas(params, LocksKey) /\ ParamsGet(params, LocksKey) = <<"1", "x", "1", "0", "1">>
           /\ ParamsHas(params, HarmonyKey) /\ ParamsGet(params, HarmonyKey) = <<"i", "n", "v", "a", "l", "i", "d">>
  /\ \A i \in 1..PaletteSize : ~res.colors[i].locked
  /\ res.harmonyRule = Undefined

\* C7 (Spec): a slider change emits a colour with locked = TRUE, and a colour a
\* slider change stored at index i keeps its hex and stays locked at index i in
\* every later step, regenerations included, as long as no toggleLock(i) and no
\* other update of index i is applied.
C7_EditedColorsKept ==
  /\ [](\A j \in 1..Len(pending) : pending[j].slider => pending[j].color.locked)
  /\ [](\A i \in 1..Len(edited) : edited[i] => palette.colors[i].locked)
  /\ [][\A i \in 1..Len(edited) :
          (edited[i] /\ \A j \in 1..Len(pending) : pending[j].op = "set" \/ pending[j].index # i - 1) =>
            /\ edited'[i]
            /\ palette'.colors[i].hex = palette.colors[i].hex
            /\ palette'.colors[i].locked]_vars

\* a slider change of swatch 3 was stored, then a render applied a regeneration:
\* the edited colour is still there and locked, another place has changed
C7_Witness ==
  /\ edited[4]
  /\ committed = <<[op |-> "set", index |-> 0]>>
  /\ palette.colors[4].locked
  /\ palette.colors[4].hsl = swatchHsl[4]
  /\ \E i \in 1..PaletteSize : palette.colors[i].hsl # swatchHsl[i]

\* C8 (Spec): after initialisation and after every change of the palette the
\* location hash is encodePaletteToUrl of the palette, and decoding that hash
\* yields the same 5 hex values, the same lock flags and the same rule.
C8_HashFollowsPalette ==
  \A p \in {palette}, urlHash \in {hash} :
    /\ urlHash = LocationHash(encodePaletteToUrl(p))
    /\ \A decoded \in {decodePaletteFromUrl(urlHash)} :
         /\ decoded # NullPalette
         /\ \A i \in 1..PaletteSize :
              /\ decoded.colors[i].hex = p.colors[i].hex
              /\ decoded.colors[i].locked = p.colors[i].locked
         /\ decoded.harmonyRule = p.harmonyRule

\* a render applied a lock toggle and a slider change; the hash has the new
\* lock flags and the new hex
C8_Witness ==
  /\ Len(committed) = 2
  /\ committed[1] = [op |-> "toggle", index |-> 0]
  /\ committed[2] = [op |-> "update", index |-> 3]
  /\ hash = SyncUrl(palette)
  /\ hash # SyncUrl([palette EXCEPT !.colors[1].locked = ~@])

\* C9 (SpecHarmony): under the analogous rule the largest hue of the 5 colours
\* minus the smallest is at most 60, for every seed hue in 0..360.
C9_AnalogousHueRange ==
  fn = "analogous" =>
    \A i, j \in 1..Len(res) : res[i].hsl.h - res[j].hsl.h <= 60

\* C10 (SpecHarmony): the hue of the i-th colour of each rule differs from the
\* hue of the seed by the i-th offset of the rule, modulo 360.
C10_HueOffsets ==
  \A rule \in RuleNames :
    fn = rule =>
      LET offsets == CASE rule = "analogous" -> <<-30, -15, 0, 15, 30>>
                       [] rule = "complementary" -> <<0, 0, 0, 180, 180>>
                       [] rule = "triadic" -> <<0, 0, 120, 240, 120>>
                       [] rule = "tetradic" -> <<0, 90, 180, 270, 0>>
                       [] rule = "monochromatic" -> <<0, 0, 0, 0, 0>>
      IN  /\ Len(res) = PaletteSize
          /\ \A i \in 1..PaletteSize : (res[i].hsl.h - arg.hsl.h - offsets[i]) % 360 = 0

\* a triadic palette of a seed whose second and third hue wrap around 360
C10_Witness ==
  /\ fn = "triadic"
  /\ arg.hsl.h = 300
  /\ res[3].hsl.h = 60 /\ res[4].hsl.h = 180 /\ res[5].hsl.h = 60

\* C11 (SpecHarmony): every colour of every harmony generator has a hue h with
\* 0 <= h < 360, for every seed hue in 0..360.
C11_HueBelow360 ==
  fn \in RuleNames => \A i \in 1..Len(res) : res[i].hsl.h >= 0 /\ res[i].hsl.h < 360

\* |a - b| <= d
Within(a, b, d) == a - b <= d /\ b - a <= d

C13_HslWithinOneOfStored ==
  fn = "decodePaletteFromUrl" =>
    \A p \in {arg}, d \in {res} :
      \A i \in 1..PaletteSize :
        /\ d.colors[i].rgb = p.colors[i].rgb
        /\ Within(d.colors[i].hsl.h, p.colors[i].hsl.h, 1)
        /\ Within(d.colors[i].hsl.s, p.colors[i].hsl.s, 1)
        /\ Within(d.colors[i].hsl.l, p.colors[i].hsl.l, 1)

\* C13 amended (SpecShare): each colour of the round trip has the hex and the
\* rgb of the original colour, and its hsl is hexToHsl of the original hex.
C13_HslDerivedFromHex ==
  fn = "decodePaletteFromUrl" =>
    \A p \in {arg}, d \in {res} :
      /\ d # NullPalette
      /\ \A i \in 1..PaletteSize :
           /\ d.colors[i].hex = p.colors[i].hex
           /\ d.colors[i].rgb = p.colors[i].rgb
           /\ d.colors[i].hsl = hexToHsl(p.colors[i].hex)

\* a round trip of a palette with an edited first colour and a generated colour
\* that is not a grey, whose decoded hsl is further than 1 from the stored hsl
C13_Witness ==
  /\ fn = "decodePaletteFromUrl"
  /\ arg.colors[1].locked
  /\ res.colors[1].rgb = arg.colors[1].rgb
  /\ \E i \in 2..PaletteSize :
       /\ arg.colors[i].hsl.s > 5
       /\ res.colors[i].rgb = arg.colors[i].rgb
       /\ \/ ~Within(res.colors[i].hsl.s, arg.colors[i].hsl.s, 1)
          \/ ~Within(res.colors[i].hsl.l, arg.colors[i].hsl.l, 1)

\* the text 'colors=' hexes without '#' joined by sep, '&locks=' and one
\* character per colour, then '&harmony=' and the rule when there is one
RECURSIVE JoinText(_, _)
JoinText(parts, sep) ==
  IF parts = <<>> THEN <<>>
  ELSE IF Len(parts) = 1 THEN parts[1]
  ELSE parts[1] \o sep \o JoinText(Tail(parts), sep)

UrlText(p, sep) ==
  ColorsKey \o <<"=">>
  \o JoinText([i \in 1..Len(p.colors) |-> Tail(p.colors[i].hex)], sep)
  \o <<"&">> \o LocksKey \o <<"=">>
  \o [i \in 1..Len(p.colors) |-> IF p.colors[i].locked THEN "1" ELSE "0"]
  \o (IF p.harmonyRule = Undefined THEN <<>>
      ELSE <<"&">> \o HarmonyKey \o <<"=">> \o RuleText(p.harmonyRule))

\* C14 as stated (SpecCodec): encodePaletteToUrl(p) is 'colors=' and the 5 hex
\* values without '#' joined by literal commas, '&locks=' and 5 characters '1'
\* (locked) or '0' (unlocked) in palette order, and '&harmony=<rule>' only when
\* the palette has a rule.
C14_LiteralCommas ==
  fn = "encodePaletteToUrl" => \A p \in {arg} : res = UrlText(p, <<",">>)

\* C14 amended (SpecCodec): the same text with each comma written '%2C'.
C14_EncodedCommas ==
  fn = "encodePaletteToUrl" => \A p \in {arg} : res = UrlText(p, <<"%", "2", "C">>)

\* the text of a palette with a rule, a locked first and an unlocked second colour
C14_Witness ==
  /\ fn = "encodePaletteToUrl"
  /\ arg.harmonyRule = "triadic"
  /\ arg.colors[1].locked /\ ~arg.colors[2].locked
  /\ SubSeq(res, 1, 16) = ColorsKey \o <<"=">> \o Tail(arg.colors[1].hex) \o <<"%", "2", "C">>
  /\ SubSeq(res, Len(res) - 15, Len(res)) = <<"&">> \o HarmonyKey \o <<"=">> \o RuleText("triadic")

\* C15 as stated (SpecHex): for every text h of 6 hexadecimal digits that
\* hexToRgb accepts, rgbToHex(hexToRgb(h)) equals h.
C15_HexRoundTrip ==
  fn = "rgbToHex" => res = arg

\* C15 amended (SpecHex): rgbToHex(hexToRgb(h)) is '#' followed by the digits
\* of h in upper case; it equals h when h is '#' and 6 upper-case digits.
C15_HexNormalised ==
  fn = "rgbToHex" =>
    \A h \in {arg} :
      /\ res = <<"#">> \o toUpperCase(StripHash(h))
      /\ (Len(h) = 7 /\ h[1] = "#" /\ \A i \in 2..7 : IsUpperHexDigit(h[i])) => res = h

\* the round trip of '#a07fff', which comes back in upper case
C15_Witness ==
  /\ fn = "rgbToHex"
  /\ arg = <<"#", "a", "0", "7", "f", "f", "f">>
  /\ res = <<"#", "A", "0", "7", "F", "F", "F">>

\* C16 (SpecRgb): for every RGB r with channels in 0..255,
\* hslToRgb(rgbToHsl(r)) differs from r by at most 2 on each channel.
C16_RgbRoundTripWithinTwo ==
  fn = "hslToRgb" =>
    \A r \in {arg}, back \in {res} :
      Within(back.r, r.r, 2) /\ Within(back.g, r.g, 2) /\ Within(back.b, r.b, 2)

\* C18 as stated (SpecRgb): rgbToHsl returns 0 <= h < 360, 0 <= s <= 100 and
\* 0 <= l <= 100, and s = 0 and h = 0 when the three channels are equal.
C18_HueBelow360 ==
  fn = "rgbToHsl" =>
    \A r \in {arg}, hsl \in {res} :
      /\ hsl.h \in 0..359 /\ hsl.s \in 0..100 /\ hsl.l \in 0..100
      /\ (r.r = r.g /\ r.g = r.b) => (hsl.s = 0 /\ hsl.h = 0)

\* C18 amended (SpecRgb): the same with 0 <= h <= 360; 360 is returned when
\* the hue rounds up to it.
C18_HueUpTo360 ==
  fn = "rgbToHsl" =>
    \A r \in {arg}, hsl \in {res} :
      /\ hsl.h \in 0..360 /\ hsl.s \in 0..100 /\ hsl.l \in 0..100
      /\ (r.r = r.g /\ r.g = r.b) => (hsl.s = 0 /\ hsl.h = 0)

\* rgbToHsl of rgb(255, 0, 1), whose hue 359.76 is rounded to 360
C18_Witness ==
  /\ fn = "rgbToHsl"
  /\ arg = [r |-> 255, g |-> 0, b |-> 1]
  /\ res = Hsl(360, 100, 50)

\* C17 (SpecHsl): for every HSL c with h in 0..360, s > 5 and 5 < l < 95,
\* rgbToHsl(hslToRgb(c)) differs from c by at most 2 in each of h, s and l.
C17_HslRoundTripWithinTwo ==
  fn = "rgbToHsl" =>
    \A c \in {arg}, back \in {res} :
      (c.s > 5 /\ c.l > 5 /\ c.l < 95) =>
        Within(back.h, c.h, 2) /\ Within(back.s, c.s, 2) /\ Within(back.l, c.l, 2)

\* C19 (SpecContrast): calculateContrastRatio(a, b) equals
\* calculateContrastRatio(b, a) for all RGB colours a and b, and is never below 1.
C19_ContrastSymmetric ==
  fn = "calculateContrastRatio" =>
    \A pair \in {arg}, ratio \in {res} :
      /\ ratio = calculateContrastRatio(pair[2].rgb, pair[1].rgb)
      /\ ratio.num >= ratio.den

\* the ratio of a pair whose first colour is the darker one
C19_Witness ==
  /\ fn = "calculateContrastRatio"
  /\ getRelativeLuminance(arg[1].rgb) < getRelativeLuminance(arg[2].rgb)
  /\ res.num = getRelativeLuminance(arg[2].rgb) + 5000000
  /\ res.num > res.den

\* C20 (SpecContrast): meetsWCAG_AAA(r) implies meetsWCAG_AA(r), and
\* ContrastIndicator shows exactly one of three outcomes: the AAA badge when
\* r >= 7.0, the AA badge when 4.5 <= r < 7.0, the warning icon with the
\* low-contrast badge when r < 4.5; the warning is shown iff r < 4.5.
C20_OneOutcome ==
  /\ fn = "calculateContrastRatio" => (meetsWCAG_AAA(res) => meetsWCAG_AA(res))
  /\ fn = "ContrastIndicator" =>
       \A r \in {res.ratio}, shown \in {res.shown} :
         /\ r = calculateContrastRatio(arg[1].rgb, arg[2].rgb)
         /\ r.num >= 7 * r.den => shown = {"badge-aaa"}
         /\ (2 * r.num >= 9 * r.den /\ r.num < 7 * r.den) => shown = {"badge-aa"}
         /\ 2 * r.num < 9 * r.den => shown = {"warning-icon", "badge-warning"}
         /\ "warning-icon" \in shown <=> 2 * r.num < 9 * r.den

\* the indicator of grey 118 on white, ratio 4.54: the AA badge alone
C20_Witness ==
  /\ fn = "ContrastIndicator"
  /\ arg[1].rgb = [r |-> 118, g |-> 118, b |-> 118]
  /\ arg[2].rgb = [r |-> 255, g |-> 255, b |-> 255]
  /\ meetsWCAG_AA(res.ratio) /\ ~meetsWCAG_AAA(res.ratio)
  /\ res.shown = {"badge-aa"}

\* C21 (SpecGen): in the palette generateRandomPalette returns no two colours
\* have the same hex, unless two locked colours of the input have the same hex.
C21_DistinctHexes ==
  fn = "generateRandomPalette" =>
    \A p \in {arg}, out \in {res} :
      \/ /\ p # NoPalette
         /\ \E i, j \in 1..Len(p.colors) :
              i # j /\ p.colors[i].locked /\ p.colors[j].locked /\ p.colors[i].hex = p.colors[j].hex
      \/ \A i, j \in 1..Len(out.colors) : i # j => out.colors[i].hex # out.colors[j].hex

\* the generated colours whose hex no locked colour has, in generation order,
\* each with locked = FALSE
RECURSIVE UsableGenerated(_, _)
UsableGenerated(generatedColors, lockedColors) ==
  IF generatedColors = <<>> THEN <<>>
  ELSE (IF \E j \in 1..Len(lockedColors) : lockedColors[j].hex = Head(generatedColors).hex
        THEN <<>>
        ELSE <<[Head(generatedColors) EXCEPT !.locked = FALSE]>>)
       \o UsableGenerated(Tail(generatedColors), lockedColors)

\* the positions from i to 5 (1-based) that hold no locked colour, increasing
RECURSIVE UnlockedPositions(_, _)
UnlockedPositions(colors, i) ==
  IF i > PaletteSize THEN <<>>
  ELSE (IF i <= Len(colors) /\ colors[i].locked THEN <<>> ELSE <<i>>) \o UnlockedPositions(colors, i + 1)

\* C22 (SpecGen): when 1 to 4 colours of the current palette are locked, the
\* seed is the first locked colour in palette order, and the unlocked
\* positions in increasing index receive, in generation order, the generated
\* colours whose hex differs from every locked colour's hex, each once and with
\* locked = FALSE; a random colour fills a position only when every generated
\* colour was consumed before.
C22_MergeOrder ==
  fn = "generateRandomPalette" /\ arg # NoPalette =>
    \A lockedColors \in {FilterLocked(arg.colors)}, out \in {res} :
      Len(lockedColors) \in 1..4 =>
        \A usable \in {UsableGenerated(generatePaletteByRule(lockedColors[1], out.harmonyRule), lockedColors)},
           positions \in {UnlockedPositions(arg.colors, 1)} :
          \A j \in 1..Len(positions) :
            IF j <= Len(usable)
            THEN out.colors[positions[j]] = usable[j]
            ELSE \E bytes \in RandomBytes : out.colors[positions[j]] = generateRandomColor(bytes)

\* a palette of 5 whose first locked colour is not at position 0, with fewer
\* usable generated colours than unlocked positions: generated colours first,
\* then a random one
C22_Witness ==
  /\ fn = "generateRandomPalette"
  /\ arg # NoPalette
  /\ Len(arg.colors) = PaletteSize
  /\ ~arg.colors[1].locked
  /\ Len(FilterLocked(arg.colors)) = 2
  /\ Len(UsableGenerated(generatePaletteByRule(FilterLocked(arg.colors)[1], res.harmonyRule),
                         FilterLocked(arg.colors))) \in 1..2
  /\ res.colors[1] = UsableGenerated(generatePaletteByRule(FilterLocked(arg.colors)[1], res.harmonyRule),
                                     FilterLocked(arg.colors))[1]
  /\ \E bytes \in RandomBytes : res.colors[5] = generateRandomColor(bytes)

\* C27 (SpecGen): generateRandomPalette does not change which positions are
\* locked: for every input palette of 5 colours and every random outcome,
\* colour i of the output is locked iff colour i of the input is locked.
C27_LocksKept ==
  fn = "generateRandomPalette" /\ arg # NoPalette =>
    \A p \in {arg}, out \in {res} :
      Len(p.colors) = PaletteSize =>
        \A i \in 1..PaletteSize : out.colors[i].locked <=> p.colors[i].locked

\* a palette of 5 with locked and unlocked colours whose unlocked positions
\* were replaced
C27_Witness ==
  /\ fn = "generateRandomPalette"
  /\ arg # NoPalette
  /\ Len(arg.colors) = PaletteSize
  /\ arg.colors[1].locked /\ ~arg.colors[2].locked /\ arg.colors[3].locked /\ ~arg.colors[4].locked
  /\ res.colors[2].hex # arg.colors[2].hex
  /\ res.colors[4].hex # arg.colors[4].hex
  /\ ~res.colors[2].locked /\ ~res.colors[4].locked /\ res.colors[1].locked /\ res.colors[3].locked

\* the positions (1-based) of the colours of a rule whose lightness is the
\* seed's lightness plus or minus an amount (the saturation is adjusted at
\* positions 1 and 5 of the monochromatic palette only)
AdjustedLightness(rule) ==
  CASE rule = "analogous" -> {}
    [] rule = "complementary" -> {1, 3, 5}
    [] rule = "triadic" -> {2, 5}
    [] rule = "tetradic" -> {5}
    [] rule = "monochromatic" -> {1, 2, 4, 5}

\* C23 (SpecHarmony): in every harmony generator each lightness obtained by
\* adjusting the seed's lightness lies in 20..80 and each saturation obtained
\* by adjusting the seed's saturation lies in 10..90, for every seed with s and
\* l in 0..100.
C23_SafeBands ==
  fn \in RuleNames =>
    \A colors \in {res} :
      /\ \A i \in AdjustedLightness(fn) : colors[i].hsl.l >= 20 /\ colors[i].hsl.l <= 80
      /\ \A i \in (IF fn = "monochromatic" THEN {1, 5} ELSE {}) : colors[i].hsl.s >= 10 /\ colors[i].hsl.s <= 90

\* C24 (SpecHarmony): in a monochromatic palette all 5 colours have the seed's
\* hue, and lightness and saturation are both non-decreasing from position 0
\* to position 4, for every seed with s and l in 0..100.
C24_MonochromaticOrder ==
  fn = "monochromatic" =>
    \A colors \in {res} :
      /\ \A i \in 1..PaletteSize : colors[i].hsl.h = arg.hsl.h
      /\ \A i \in 1..(PaletteSize - 1) :
           /\ colors[i].hsl.l <= colors[i + 1].hsl.l
           /\ colors[i].hsl.s <= colors[i + 1].hsl.s

\* C25 (SpecApi): a render that applies only toggleLock updates leaves the
\* harmonyRule, the order and every colour's hex, rgb and hsl as they were, and
\* inverts the locked flag of colour i once per toggleLock(i) with 0 <= i < 5:
\* one call inverts it, two calls restore the palette, a call with any other
\* index changes nothing.
C25_ToggleLockFrame ==
  [][ (pending # <<>> /\ pending' = <<>> /\ \A k \in 1..Len(pending) : pending[k].op = "toggle") =>
        \A before \in {palette}, after \in {palette'}, updates \in {pending} :
          /\ after.harmonyRule = before.harmonyRule
          /\ Len(after.colors) = Len(before.colors)
          /\ \A j \in 1..Len(before.colors) :
               /\ after.colors[j].hex = before.colors[j].hex
               /\ after.colors[j].rgb = before.colors[j].rgb
               /\ after.colors[j].hsl = before.colors[j].hsl
               /\ after.colors[j].locked =
                    IF Cardinality({k \in 1..Len(updates) : updates[k].index = j - 1}) % 2 = 1
                    THEN ~before.colors[j].locked
                    ELSE before.colors[j].locked
          /\ (\A k \in 1..Len(updates) : updates[k].index \notin 0..(PaletteSize - 1)) => after = before
    ]_vars

\* a render applied toggleLock(0) twice to the palette of the start URL, whose
\* first colour is locked again
C25_Witness ==
  /\ Len(committed) = 2
  /\ committed[1] = [op |-> "toggle", index |-> 0]
  /\ committed[2] = [op |-> "toggle", index |-> 0]
  /\ steps = 2
  /\ palette.colors[1].locked
  /\ palette.harmonyRule = Undefined

\* C29 (Spec): when toggleLock(i) on an unlocked colour i and then
\* generatePalette are called through the callbacks of the same render, the
\* palette of the next render has colour i locked with the hex it had before
\* the two calls.
C29_ToggleThenGenerate ==
  [][ ( /\ Len(pending) = 2 /\ pending' = <<>>
        /\ pending[1].op = "toggle" /\ pending[2].op = "set"
        /\ ~palette.colors[pending[1].index + 1].locked ) =>
        \A i \in {pending[1].index + 1}, before \in {palette}, after \in {palette'} :
          after.colors[i].locked /\ after.colors[i].hex = before.colors[i].hex
    ]_vars

\* C28 (Spec): when a slider changes one HSL component of the swatch at index
\* i, the emitted colour keeps the other two HSL components of the colour
\* shown at index i (at most one component differs), also when that colour was
\* replaced by a regeneration since the swatch was mounted.
C28_SliderKeepsOthers ==
  [][ ( /\ Len(pending') = Len(pending) + 1
        /\ pending'[Len(pending')].op = "update"
        /\ pending'[Len(pending')].slider ) =>
        \A u \in {pending'[Len(pending')]} :
          \A shown \in {palette.colors[u.index + 1].hsl} :
            Cardinality({c \in {"h", "s", "l"} : u.color.hsl[c] # shown[c]}) <= 1
    ]_vars

\* C30 (Spec): for every colour of every palette the application reaches
\* (fresh generation, regeneration, URL decode, slider edit), hex is '#'
\* followed by 6 upper-case hexadecimal digits and rgb is hexToRgb(hex).
C30_HexShapeAndRgb ==
  \A p \in {palette} :
    \A i \in 1..Len(p.colors) :
      \A c \in {p.colors[i]} :
        /\ Len(c.hex) = 7
        /\ c.hex[1] = "#"
        /\ \A k \in 2..7 : IsUpperHexDigit(c.hex[k])
        /\ c.rgb = hexToRgb(c.hex)

\* a palette decoded from the start URL, regenerated around its locked colour
\* and with the colour at index 3 edited by a slider
C30_Witness ==
  /\ steps = 2
  /\ pending = <<>>
  /\ edited[4]
  /\ palette.colors[3].locked
  /\ palette.colors[3].hex = <<"#", "8", "0", "8", "0", "8", "0">>
  /\ palette.colors[1].hex # <<"#", "F", "0", "0", "2", "E", "A">>

(***************************************************************************)
(* App: the interaction effect that shows and hides the controls bar.     *)
(* app holds the two pieces of state of the component (isInteracting,     *)
(* interactionTimeout, 0 for null), the interactionTimeout that the       *)
(* mounted effect has captured (closure, -1 before the first effect has   *)
(* run), whether a committed render still waits for its effect, the       *)
(* queue of state updates, and the timers of the window with their age in *)
(* seconds.  quiet is the time since the last event of the user.  A render *)
(* or an effect takes less than a second: between two ticks of the clock  *)
(* React makes a step whenever it has one to make (progressed).           *)
(***************************************************************************)
HideDelay == 3
MaxTimers == 2

InteractionEvents == {"mousemove", "click", "keydown", "touchstart"}

\* setTimeout returns an identifier that no timer, state, closure or update
\* holds
setTimeout(a) ==
  LET referenced == {t.id : t \in a.timers} \cup {a.interactionTimeout, a.closure}
                      \cup {a.queue[i].id : i \in 1..Len(a.queue)}
      free == {i \in 1..(MaxTimers + 5) : i \notin referenced}
  IN CHOOSE i \in free : \A j \in free : i <= j

\* clearTimeout(id): a timer that is not armed is left alone
clearTimeout(timers, id) == {t \in timers : t.id # id}

setIsInteracting(flag) == [kind |-> "isInteracting", flag |-> flag, id |-> 0]

setInteractionTimeout(id) == [kind |-> "interactionTimeout", flag |-> FALSE, id |-> id]

\* handleInteraction of the mounted effect: it clears the timeout that the
\* effect captured and arms a new one
handleInteraction(a) ==
  Only({ [a EXCEPT !.timers = clearTimeout(a.timers, a.closure)
                                \cup {[id |-> timeout, age |-> 0]},
                   !.queue = a.queue \o <<setIsInteracting(TRUE),
                                          setInteractionTimeout(timeout)>>]
         : timeout \in {setTimeout(a)} })

\* the value of a piece of state after the queued updates
StateAfter(queue, kind, current) ==
  Only({ IF at = {} THEN current
         ELSE queue[CHOOSE i \in at : \A j \in at : j <= i]
         : at \in {{i \in 1..Len(queue) : queue[i].kind = kind}} })

\* first render of App: nothing armed, the effect is still to run
InitApp ==
  /\ app = [mounted |-> TRUE, isInteracting |-> FALSE, interactionTimeout |-> 0,
            closure |-> -1, effectPending |-> TRUE, queue |-> <<>>,
            timers |-> {}, quiet |-> 0, lastEvent |-> "mount",
            progressed |-> TRUE]
  /\ palette = NoPalette /\ pending = <<>> /\ hash = <<>> /\ swatchHsl = <<>>
  /\ edited = <<>> /\ committed = <<>> /\ steps = 0
  /\ PureIdle

\* the effect of the committed render: the cleanup of the previous effect
\* clears the timeout it captured, the new effect captures the committed
\* interactionTimeout, adds its listeners and calls handleInteraction()
RunEffect ==
  /\ app.mounted
  /\ app.effectPending
  /\ \E a \in {[app EXCEPT !.timers = clearTimeout(app.timers, app.closure),
                           !.closure = app.interactionTimeout,
                           !.effectPending = FALSE,
                           !.progressed = TRUE]} :
       app' = handleInteraction(a)
  /\ UNCHANGED <<palette, pending, hash, swatchHsl, edited, committed, steps, pureVars>>

\* the window dispatches an event to the listener of the mounted effect
UserEvent ==
  /\ app.mounted
  /\ app.closure # -1
  /\ Cardinality(app.timers) < MaxTimers
  /\ \E e \in InteractionEvents :
       \E a \in {[app EXCEPT !.quiet = 0, !.lastEvent = e]} :
         app' = handleInteraction(a)
  /\ UNCHANGED <<palette, pending, hash, swatchHsl, edited, committed, steps, pureVars>>

\* a timeout armed HideDelay seconds ago runs its callback
TimerFires ==
  /\ app.mounted
  /\ \E t \in app.timers :
       /\ t.age = HideDelay
       /\ app' = [app EXCEPT !.timers = @ \ {t},
                             !.queue = Append(@, setIsInteracting(FALSE))]
  /\ UNCHANGED <<palette, pending, hash, swatchHsl, edited, committed, steps, pureVars>>

\* React renders App: pending effects have run, the queued updates are
\* applied, and the effect is scheduled again when its dependency
\* interactionTimeout has changed
RenderApp ==
  /\ app.mounted
  /\ app.queue # <<>>
  /\ ~app.effectPending
  /\ \E interacting \in {StateAfter(app.queue, "isInteracting",
                                    setIsInteracting(app.isInteracting)).flag},
        timeout \in {StateAfter(app.queue, "interactionTimeout",
                                setInteractionTimeout(app.interactionTimeout)).id} :
       app' = [app EXCEPT !.isInteracting = interacting,
                          !.interactionTimeout = timeout,
                          !.effectPending = (timeout # app.interactionTimeout),
                          !.queue = <<>>,
                          !.progressed = TRUE]
  /\ UNCHANGED <<palette, pending, hash, swatchHsl, edited, committed, steps, pureVars>>

\* a second passes: no timeout is overdue, and a component that has work to
\* do has done some of it since the last tick
Tick ==
  /\ app.mounted
  /\ ~app.progressed => (~app.effectPending /\ app.queue = <<>>)
  /\ \A t \in app.timers : t.age < HideDelay
  /\ app' = [app EXCEPT !.timers = {[id |-> t.id, age |-> t.age + 1] : t \in @},
                        !.quiet = IF @ < HideDelay THEN @ + 1 ELSE @,
                        !.progressed = FALSE]
  /\ UNCHANGED <<palette, pending, hash, swatchHsl, edited, committed, steps, pureVars>>

NextApp == RunEffect \/ UserEvent \/ TimerFires \/ RenderApp \/ Tick

\* React runs the effects and renders it has scheduled, the window runs its
\* timers and time passes; the user is free to stop
SpecApp ==
  /\ InitApp
  /\ [][NextApp]_vars
  /\ WF_vars(RunEffect)
  /\ WF_vars(RenderApp)
  /\ WF_vars(TimerFires)
  /\ WF_vars(Tick)

\* C26 (App hides the controls): whenever HideDelay seconds have passed since
\* the last mousemove, click, keydown or touchstart event, the hide timeout
\* fires and isInteracting becomes false, unless the user acts again.
C26_HidesAfterQuiet ==
  [](( /\ app.lastEvent \in InteractionEvents
       /\ app.quiet = HideDelay )
       => <>(~app.isInteracting \/ app.quiet < HideDelay))

====
